---- MODULE Spec2Model ----
(***************************************************************************)
(* Model of the tabular ETL and analysis engine of the dashboard platform. *)
(*                                                                         *)
(*   ETLProcessor      (src/unnamed/part_001)       transformData and the   *)
(*                     private steps it calls                               *)
(*   DataImputation    (src/lib/data-imputation.ts) imputeMissingData and   *)
(*                     the per-method passes                                *)
(*   EnhancedETLProcessor (src/lib/enhanced-etl-processor.ts)               *)
(*                     enhancedCleanData, performEDA and the steps they     *)
(*                     call                                                 *)
(*   DataStore         (src/lib/data-store.ts) with the processFile tasks   *)
(*                     of the upload page (src/unnamed/part_002)            *)
(*                                                                         *)
(* JavaScript cells are dynamically typed.  A cell is a record             *)
(*   [k, s, n, d]  with k the tag: "null", "undef", "bool", "str", "num",   *)
(*   "nan", "inf", "sym"; s the text of a string; n/d a rational in lowest  *)
(*   terms                                                                  *)
(*   (a boolean is n = 1 or n = 0).                                         *)
(* Strings are drawn from a fixed table of literals; trim(), Number() and   *)
(* Date.parse() are given for each literal of the table as JavaScript       *)
(* evaluates them.                                                          *)
(***************************************************************************)
EXTENDS Integers, Sequences, FiniteSets, TLC

VARIABLES
    rawData,        \* rows handed over by the file front-end
    headers,        \* header list handed over by the file front-end
    lenientDates,   \* whether the host's Date.parse accepts bare digits
    processed,      \* last ProcessedData returned by transformData
    pc,             \* "input", "first" (one run done), "second" (re-run done)
    vizRows,        \* the row objects the caller passes to imputeMissingData
    callRows,       \* their contents when the last call began
    imputedData,    \* the rows returned by the last imputeMissingData call
    impResults,     \* the results returned by the last call, per column
    impSteps,       \* per applied strategy of the last call: rows before, after
    impStrategies,  \* the strategies argument of the last call
    impPc,          \* "idle", "done"
    enhData,        \* the rows passed to enhancedCleanData
    catBefore,      \* the rows standardizeCategoricalData was given
    catAfter,       \* the rows standardizeCategoricalData returned
    enhCleaned,     \* the rows enhancedCleanData returned
    enhPc,          \* "idle", "done"
    edaData,        \* the rows passed to performEDA
    edaColumns,     \* the columns passed to performEDA
    eda,            \* the EDAResults performEDA returned
    edaPc,          \* "idle", "done"
    datasets,       \* DataStore.datasets: per file id its dataset or absent
    notifications,  \* the number of times DataStore.notify has run
    filePc,         \* per file, where its processFile task stands
    progress,       \* per file, the progress variable of the upload loop
    deleted,        \* per file id, whether deleteDataset has been called
    deleteCalls,    \* the number of deleteDataset calls made
    imputeCalls     \* the number of handleImputation calls made

etlVars == <<rawData, headers, lenientDates, processed, pc>>

edaVars == <<edaData, edaColumns, eda, edaPc>>

storeVars == <<datasets, notifications, filePc, progress, deleted, deleteCalls, imputeCalls>>

enhVars == <<enhData, catBefore, catAfter, enhCleaned, enhPc>>

impVars == <<vizRows, callRows, imputedData, impResults, impSteps, impStrategies, impPc>>

vars == <<rawData, headers, lenientDates, processed, pc,
          vizRows, callRows, imputedData, impResults, impSteps, impStrategies,
          impPc, enhData, catBefore, catAfter, enhCleaned, enhPc,
          edaData, edaColumns, eda, edaPc,
          datasets, notifications, filePc, progress, deleted, deleteCalls, imputeCalls>>

-----------------------------------------------------------------------------
(* Bounds *)

MaxRows == 3

MaxImpRows == 3

MaxStrategies == 2

MaxCatRows == 3

-----------------------------------------------------------------------------
(* Cell values *)

Null == [k |-> "null", s |-> "", n |-> 0, d |-> 1]

Undef == [k |-> "undef", s |-> "", n |-> 0, d |-> 1]

NaNV == [k |-> "nan", s |-> "", n |-> 0, d |-> 1]

InfV == [k |-> "inf", s |-> "", n |-> 1, d |-> 1]

Str(t) == [k |-> "str", s |-> t, n |-> 0, d |-> 1]

\* a Symbol: String() describes it, Number() and arithmetic throw a TypeError
Sym == [k |-> "sym", s |-> "", n |-> 0, d |-> 1]

Bool(b) == [k |-> "bool", s |-> "", n |-> IF b THEN 1 ELSE 0, d |-> 1]

RECURSIVE GCD(_, _)
GCD(x, y) == IF y = 0 THEN x ELSE GCD(y, x % y)

Abs(x) == IF x < 0 THEN -x ELSE x

\* the rational p/q (q # 0) in lowest terms with a positive denominator
Num(p, q) ==
    LET g == GCD(Abs(p), Abs(q))
        sgn == IF q < 0 THEN -1 ELSE 1
    IN [k |-> "num", s |-> "", n |-> sgn * (p \div g), d |-> sgn * (q \div g)]

Int2V(i) == [k |-> "num", s |-> "", n |-> i, d |-> 1]

IsFinite(v) == v.k = "num"

\* JavaScript a + b, a / b on numbers (NaN and +Infinity included)
JsAdd(a, b) ==
    IF a.k = "nan" \/ b.k = "nan" THEN NaNV
    ELSE IF a.k = "inf" \/ b.k = "inf" THEN InfV
    ELSE Num(a.n * b.d + b.n * a.d, a.d * b.d)

JsDiv(a, b) ==
    IF a.k = "nan" \/ b.k = "nan" THEN NaNV
    ELSE IF a.k = "inf" THEN (IF b.k = "inf" THEN NaNV ELSE InfV)
    ELSE IF b.k = "inf" THEN Int2V(0)
    ELSE IF b.n = 0 THEN (IF a.n = 0 THEN NaNV ELSE InfV)
    ELSE Num(a.n * b.d, a.d * b.n)

NegInfV == [k |-> "neginf", s |-> "", n |-> -1, d |-> 1]

\* JavaScript a - b
JsSub(a, b) ==
    IF a.k = "nan" \/ b.k = "nan" THEN NaNV
    ELSE IF a.k = "inf" THEN (IF b.k = "inf" THEN NaNV ELSE InfV)
    ELSE IF a.k = "neginf" THEN (IF b.k = "neginf" THEN NaNV ELSE NegInfV)
    ELSE IF b.k = "inf" THEN NegInfV
    ELSE IF b.k = "neginf" THEN InfV
    ELSE Num(a.n * b.d - b.n * a.d, a.d * b.d)

\* JavaScript a * b for a finite or NaN and b finite
JsMul(a, b) ==
    IF a.k = "nan" \/ b.k = "nan" THEN NaNV
    ELSE Num(a.n * b.n, a.d * b.d)

\* a < b on numbers; any comparison with NaN is false
JsLess(a, b) ==
    IF a.k = "nan" \/ b.k = "nan" THEN FALSE
    ELSE IF a.k = "inf" THEN FALSE
    ELSE IF b.k = "inf" THEN TRUE
    ELSE a.n * b.d < b.n * a.d

-----------------------------------------------------------------------------
(* String literals and the conversions JavaScript applies to them.  A string *)
(* that is the canonical decimal text of a number has s = "#" and carries    *)
(* the number in n/d, so that String(number) and Number(string) are exact.   *)

NumStr(p, q) == [k |-> "str", s |-> "#", n |-> p, d |-> q]

Iso2020 == Str("2020-01-01T00:00:00.000Z")

Iso2001 == Str("2001-01-01T00:00:00.000Z")

\* String.prototype.trim
Trim(t) ==
    CASE t = Str(" ") -> Str("")
      [] t = Str(" true") -> Str("true")
      [] t = Str("N/A ") -> Str("N/A")
      [] OTHER -> t

\* Number(string): surrounding whitespace is ignored, the empty string is 0
NumberOfStr(t) ==
    CASE t.s = "#" -> [k |-> "num", s |-> "", n |-> t.n, d |-> t.d]
      [] Trim(t) = Str("") -> Int2V(0)
      [] t = Str("Infinity") -> InfV
      [] OTHER -> NaNV

\* Number(value)
Number(v) ==
    CASE v.k = "null" -> Int2V(0)
      [] v.k = "undef" -> NaNV
      [] v.k = "bool" -> Int2V(v.n)
      [] v.k = "str" -> NumberOfStr(v)
      [] OTHER -> v

IsNaN(v) == v.k = "nan"

\* String(value)
ToStr(v) ==
    CASE v.k = "str" -> v
      [] v.k = "bool" -> IF v.n = 1 THEN Str("true") ELSE Str("false")
      [] v.k = "null" -> Str("null")
      [] v.k = "undef" -> Str("undefined")
      [] v.k = "nan" -> Str("NaN")
      [] v.k = "inf" -> Str("Infinity")
      [] v.k = "sym" -> Str("Symbol()")
      [] OTHER -> NumStr(v.n, v.d)

\* the instant a string denotes for Date.parse / new Date(string), as its
\* ISO-8601 serialization, or the empty string when it is not a date.  ISO
\* forms are accepted by every host; the bare digit "1" is
\* implementation-defined (read as a year by a lenient host).
DateOfStr(t, lenient) ==
    CASE t = Str("2020-01-01") -> Iso2020
      [] t = Iso2020 -> Iso2020
      [] t = Iso2001 -> Iso2001
      [] t = NumStr(1, 1) -> IF lenient THEN Iso2001 ELSE Str("")
      [] OTHER -> Str("")

\* !isNaN(Date.parse(val)): the argument is converted to a string first
DateParses(v, lenient) == DateOfStr(ToStr(v), lenient) # Str("")

\* new Date(value).toISOString() for a string value, Null when invalid
DateToISO(v, lenient) ==
    IF v.k = "str" /\ DateOfStr(v, lenient) # Str("") THEN DateOfStr(v, lenient) ELSE Null

IsMissing(v) == v.k = "null" \/ v.k = "undef" \/ v = Str("")

-----------------------------------------------------------------------------
(* Sequence helpers *)

Range(sq) == {sq[i] : i \in 1..Len(sq)}

RECURSIVE FoldSeq(_, _, _)
FoldSeq(Op(_, _), acc, sq) ==
    IF sq = <<>> THEN acc ELSE FoldSeq(Op, Op(acc, Head(sq)), Tail(sq))

Keys == {"a", "b"}

-----------------------------------------------------------------------------
(* ETLProcessor: schema inference *)

ColumnValues(data, header) ==
    SelectSeq([i \in 1..Len(data) |-> data[i][header]], LAMBDA v : ~IsMissing(v))

IsBooleanLike(v) ==
    v.k = "bool" \/ v = Str("true") \/ v = Str("false") \/ v = NumStr(1, 1) \/ v = NumStr(0, 1)

IsNumberLike(v) == ~IsNaN(Number(v)) /\ v # Str("")

InferType(values, lenient) ==
    IF \A i \in 1..Len(values) : IsBooleanLike(values[i]) THEN "boolean"
    ELSE IF \A i \in 1..Len(values) : IsNumberLike(values[i]) THEN "number"
    ELSE IF \A i \in 1..Len(values) : DateParses(values[i], lenient) THEN "date"
    ELSE "string"

JsMin(a, b) ==
    IF a.k = "nan" \/ b.k = "nan" THEN NaNV ELSE IF JsLess(b, a) THEN b ELSE a

JsMax(a, b) ==
    IF a.k = "nan" \/ b.k = "nan" THEN NaNV ELSE IF JsLess(a, b) THEN b ELSE a

SumNumbers(acc, v) == JsAdd(acc, Number(v))

MinNumbers(acc, v) == JsMin(acc, Number(v))

MaxNumbers(acc, v) == JsMax(acc, Number(v))

ColumnStats(type, values, nullCount) ==
    IF type = "number"
    THEN [min |-> FoldSeq(MinNumbers, InfV, values),
          max |-> FoldSeq(MaxNumbers, Number(values[1]), values),
          avg |-> JsDiv(FoldSeq(SumNumbers, Int2V(0), values), Int2V(Len(values))),
          nullCount |-> nullCount,
          uniqueCount |-> Cardinality(Range(values))]
    ELSE [min |-> Undef, max |-> Undef, avg |-> Undef,
          nullCount |-> nullCount,
          uniqueCount |-> Cardinality(Range(values))]

DetectColumn(data, header, lenient) ==
    LET values == ColumnValues(data, header)
        nullCount == Len(data) - Len(values)
        type == InferType(values, lenient)
    IN [name |-> header,
        type |-> type,
        nullable |-> nullCount > 0,
        unique |-> Cardinality(Range(values)) = Len(values),
        stats |-> ColumnStats(type, values, nullCount)]

detectDataTypes(data, hdrs, lenient) ==
    [i \in 1..Len(hdrs) |-> DetectColumn(data, hdrs[i], lenient)]

-----------------------------------------------------------------------------
(* ETLProcessor: cleaning *)

CleanCell(value, type, lenient) ==
    IF IsMissing(value) THEN Null
    ELSE CASE type = "number" ->
                 (IF IsNaN(Number(value)) THEN Null ELSE Number(value))
           [] type = "boolean" ->
                 (IF value.k = "bool" THEN value
                  ELSE Bool(value = Str("true") \/ value = NumStr(1, 1) \/ value = Int2V(1)))
           [] type = "date" -> DateToISO(value, lenient)
           [] OTHER -> Trim(ToStr(value))

ColumnNamed(columns, name) ==
    CHOOSE i \in 1..Len(columns) : columns[i].name = name

CleanRow(row, columns, lenient) ==
    [c \in Keys |->
        IF \E i \in 1..Len(columns) : columns[i].name = c
        THEN CleanCell(row[c], columns[ColumnNamed(columns, c)].type, lenient)
        ELSE Undef]

cleanData(data, columns, lenient) ==
    [i \in 1..Len(data) |-> CleanRow(data[i], columns, lenient)]

-----------------------------------------------------------------------------
(* ETLProcessor: duplicate removal *)

\* JSON.stringify of one cell: NaN and Infinity are written as null, an
\* undefined property is left out
JsonOf(v) ==
    CASE v.k = "nan" -> Null
      [] v.k = "inf" -> Null
      [] OTHER -> v

\* JSON.stringify(row); every row of one cleaning pass lists its properties
\* in the same (column) order, so the text is determined by the cells
Stringify(row) == [c \in Keys |-> JsonOf(row[c])]

DedupStepKeepsRow(acc, row) ==
    IF Stringify(row) \notin acc.seen
    THEN [seen |-> acc.seen \cup {Stringify(row)},
          data |-> Append(acc.data, row),
          duplicateCount |-> acc.duplicateCount]
    ELSE [seen |-> acc.seen,
          data |-> Append(acc.data, row),
          duplicateCount |-> acc.duplicateCount + 1]

DedupStep(acc, row) ==
    IF Stringify(row) \notin acc.seen
    THEN [seen |-> acc.seen \cup {Stringify(row)},
          data |-> Append(acc.data, row),
          duplicateCount |-> acc.duplicateCount]
    ELSE [seen |-> acc.seen,
          data |-> acc.data,
          duplicateCount |-> acc.duplicateCount + 1]

removeDuplicates(data) ==
    LET r == FoldSeq(DedupStep, [seen |-> {}, data |-> <<>>, duplicateCount |-> 0], data)
    IN [data |-> r.data, duplicateCount |-> r.duplicateCount]

-----------------------------------------------------------------------------
(* ETLProcessor: quality report *)

Issue(tag, cnt, col) == [tag |-> tag, cnt |-> cnt, col |-> col]

\* columns.reduce((sum, col) => sum + (col.stats?.nullCount || 0), 0)
SumNullCounts(acc, col) == acc + col.stats.nullCount

ColumnIssueStepNoSuggestion(acc, col) ==
    IF 2 * col.stats.nullCount > acc.totalRows
    THEN [totalRows |-> acc.totalRows,
          issues |-> Append(acc.issues, Issue("column_missing", 0, col.name)),
          suggestions |-> acc.suggestions]
    ELSE acc

\* one step of the columns.forEach that reports columns with > 50% missing:
\* nullCount > totalRows * 0.5
ColumnIssueStep(acc, col) ==
    IF 2 * col.stats.nullCount > acc.totalRows
    THEN [totalRows |-> acc.totalRows,
          issues |-> Append(acc.issues, Issue("column_missing", 0, col.name)),
          suggestions |-> Append(acc.suggestions, Issue("impute_column", 0, col.name))]
    ELSE acc

\* the issue and suggestion lists, in the order the pushes happen
CollectIssues(totalRows, totalColumns, nullValues, duplicateCount, columns) ==
    LET dup == IF duplicateCount > 0
               THEN [issues |-> <<Issue("duplicates", duplicateCount, "")>>,
                     suggestions |-> <<Issue("review_source", 0, "")>>]
               ELSE [issues |-> <<>>, suggestions |-> <<>>]
        \* nullValues > totalRows * totalColumns * 0.1
        miss == IF 10 * nullValues > totalRows * totalColumns
                THEN [issues |-> Append(dup.issues, Issue("missing", nullValues, "")),
                      suggestions |-> Append(dup.suggestions, Issue("impute", 0, ""))]
                ELSE dup
    IN FoldSeq(ColumnIssueStep,
               [totalRows |-> totalRows, issues |-> miss.issues,
                suggestions |-> miss.suggestions],
               columns)

\* (duplicateCount / originalRowCount) * 20
DuplicatePenalty(duplicateCount, originalRowCount) ==
    LET q == JsDiv(Int2V(duplicateCount), Int2V(originalRowCount))
    IN IF q.k = "num" THEN Num(q.n * 20, q.d) ELSE q

\* (nullValues / (totalRows * totalColumns)) * 30
MissingPenalty(nullValues, totalRows, totalColumns) ==
    LET q == JsDiv(Int2V(nullValues), Int2V(totalRows * totalColumns))
    IN IF q.k = "num" THEN Num(q.n * 30, q.d) ELSE q

\* Math.round(Math.max(0, Math.min(100, x))): NaN stays NaN, halves round up
ClampRound(x) ==
    IF x.k = "nan" THEN NaNV
    ELSE IF x.k = "neginf" THEN Int2V(0)
    ELSE IF x.n < 0 THEN Int2V(0)
    ELSE IF x.n > 100 * x.d THEN Int2V(100)
    ELSE Int2V((2 * x.n + x.d) \div (2 * x.d))

QualityScore(duplicateCount, originalRowCount, nullValues, totalRows, totalColumns, nIssues) ==
    ClampRound(
        JsSub(JsSub(JsSub(Int2V(100), DuplicatePenalty(duplicateCount, originalRowCount)),
                    MissingPenalty(nullValues, totalRows, totalColumns)),
              Int2V(5 * nIssues)))

generateQualityReport(data, columns, originalRowCount, duplicateCount) ==
    LET totalRows == Len(data)
        totalColumns == Len(columns)
        nullValues == FoldSeq(SumNullCounts, 0, columns)
        found == CollectIssues(totalRows, totalColumns, nullValues, duplicateCount, columns)
    IN [totalRows |-> totalRows,
        totalColumns |-> totalColumns,
        duplicateRows |-> duplicateCount,
        nullValues |-> nullValues,
        dataTypes |-> [i \in 1..Len(columns) |-> <<columns[i].name, columns[i].type>>],
        qualityScore |-> QualityScore(duplicateCount, originalRowCount, nullValues,
                                      totalRows, totalColumns, Len(found.issues)),
        issues |-> found.issues,
        suggestions |-> found.suggestions]

-----------------------------------------------------------------------------
(* ETLProcessor.transformData *)

\* Object.values(row).some(value => value !== null && value !== undefined && value !== "")
RowHasValue(row) == \E c \in Keys : ~IsMissing(row[c])

transformDataCountsAfterFilter(data, hdrs, lenient) ==
    LET nonEmpty == SelectSeq(data, RowHasValue)
        originalRowCount == Len(nonEmpty)
        columns == detectDataTypes(nonEmpty, hdrs, lenient)
        cleanedData == cleanData(nonEmpty, columns, lenient)
        dedup == removeDuplicates(cleanedData)
        qualityReport == generateQualityReport(dedup.data, columns, originalRowCount,
                                               dedup.duplicateCount)
    IN [data |-> dedup.data,
        columns |-> columns,
        qualityReport |-> qualityReport,
        originalRowCount |-> originalRowCount,
        cleanedRowCount |-> Len(dedup.data)]

transformData(data, hdrs, lenient) ==
    LET originalRowCount == Len(data)
        nonEmpty == SelectSeq(data, RowHasValue)
        columns == detectDataTypes(nonEmpty, hdrs, lenient)
        cleanedData == cleanData(nonEmpty, columns, lenient)
        dedup == removeDuplicates(cleanedData)
        qualityReport == generateQualityReport(dedup.data, columns, originalRowCount,
                                               dedup.duplicateCount)
    IN [data |-> dedup.data,
        columns |-> columns,
        qualityReport |-> qualityReport,
        originalRowCount |-> originalRowCount,
        cleanedRowCount |-> Len(dedup.data)]

NoResult ==
    [data |-> <<>>, columns |-> <<>>,
     qualityReport |-> [totalRows |-> 0, totalColumns |-> 0, duplicateRows |-> 0,
                        nullValues |-> 0, dataTypes |-> <<>>, qualityScore |-> Undef,
                        issues |-> <<>>, suggestions |-> <<>>],
     originalRowCount |-> 0, cleanedRowCount |-> 0]

-----------------------------------------------------------------------------
(* DataImputation: the per-method passes.  Each takes the rows and a column *)
(* name and gives the rows after the in-place pass.                          *)

isNullOrEmpty(value) ==
    \/ value.k = "null"
    \/ value.k = "undef"
    \/ value = Str("")
    \/ (value.k = "str" /\ Trim(value) = Str(""))

countOnlyNull(data, column) ==
    Cardinality({i \in 1..Len(data) : data[i][column] = Null})

countNullValues(data, column) ==
    Cardinality({i \in 1..Len(data) : isNullOrEmpty(data[i][column])})

Cells(data, column) == [i \in 1..Len(data) |-> data[i][column]]

FillEvery(data, column, value) ==
    [i \in 1..Len(data) |-> [data[i] EXCEPT ![column] = value]]

\* data.forEach(row => { if (isNullOrEmpty(row[column])) row[column] = value })
FillMissing(data, column, value) ==
    [i \in 1..Len(data) |->
        IF isNullOrEmpty(data[i][column])
        THEN [data[i] EXCEPT ![column] = value]
        ELSE data[i]]

\* val !== null && val !== undefined && val !== "" && !isNaN(Number(val))
IsValidNumeric(val) == ~IsMissing(val) /\ ~IsNaN(Number(val))

ValidNumbers(data, column) ==
    LET kept == SelectSeq(Cells(data, column), IsValidNumeric)
    IN [i \in 1..Len(kept) |-> Number(kept[i])]

imputeWithMean(data, column) ==
    LET validValues == ValidNumbers(data, column)
        mean == JsDiv(FoldSeq(JsAdd, Int2V(0), validValues), Int2V(Len(validValues)))
    IN IF Len(validValues) = 0 THEN data ELSE FillMissing(data, column, mean)

RECURSIVE InsertSorted(_, _)
InsertSorted(sorted, v) ==
    IF sorted = <<>> THEN <<v>>
    ELSE IF JsLess(v, Head(sorted)) THEN <<v>> \o sorted
    ELSE <<Head(sorted)>> \o InsertSorted(Tail(sorted), v)

\* .sort((a, b) => a - b)
SortAscending(values) == FoldSeq(InsertSorted, <<>>, values)

Median(sorted) ==
    IF Len(sorted) % 2 = 0
    THEN JsDiv(JsAdd(sorted[Len(sorted) \div 2], sorted[Len(sorted) \div 2 + 1]), Int2V(2))
    ELSE sorted[Len(sorted) \div 2 + 1]

imputeWithMedian(data, column) ==
    LET validValues == SortAscending(ValidNumbers(data, column))
    IN IF Len(validValues) = 0 THEN data
       ELSE FillMissing(data, column, Median(validValues))

\* the keys of the frequencies object, in insertion order
AddKey(keys, val) ==
    IF ToStr(val) \in Range(keys) THEN keys ELSE Append(keys, ToStr(val))

\* a property name that is an array index: Object.entries lists these first,
\* in ascending numeric order, then the other names in insertion order
IsIndexKey(key) == key.s = "#" /\ key.d = 1 /\ key.n >= 0

EntryBefore(keys, k1, k2) ==
    IF IsIndexKey(k1) /\ IsIndexKey(k2) THEN k1.n < k2.n
    ELSE IF IsIndexKey(k1) THEN TRUE
    ELSE IF IsIndexKey(k2) THEN FALSE
    ELSE (CHOOSE i \in 1..Len(keys) : keys[i] = k1) < (CHOOSE i \in 1..Len(keys) : keys[i] = k2)

\* Object.entries(frequencies).sort(([, a], [, b]) => b - a)[0][0]: the sort
\* is stable, so among the most frequent keys the first entry wins
ModeKey(validValues) ==
    LET keys == FoldSeq(AddKey, <<>>, validValues)
        freq(key) == Cardinality({i \in 1..Len(validValues) : ToStr(validValues[i]) = key})
    IN CHOOSE key \in Range(keys) :
          \A other \in Range(keys) \ {key} :
              \/ freq(key) > freq(other)
              \/ (freq(key) = freq(other) /\ EntryBefore(keys, key, other))

imputeWithMode(data, column) ==
    LET validValues == SelectSeq(Cells(data, column), LAMBDA v : ~IsMissing(v))
    IN IF Len(validValues) = 0 THEN data
       ELSE FillMissing(data, column, ModeKey(validValues))

ForwardStepFirstValue(acc, i) ==
    IF ~isNullOrEmpty(acc.data[i][acc.column])
    THEN IF acc.last = Null THEN [acc EXCEPT !.last = acc.data[i][acc.column]] ELSE acc
    ELSE IF acc.last # Null
    THEN [acc EXCEPT !.data[i][acc.column] = acc.last]
    ELSE acc

\* the body of the loop of imputeWithForwardFill and of imputeWithBackwardFill:
\* last is lastValidValue (nextValidValue), null until a cell that is not
\* missing has been passed
ForwardStep(acc, i) ==
    IF ~isNullOrEmpty(acc.data[i][acc.column])
    THEN [acc EXCEPT !.last = acc.data[i][acc.column]]
    ELSE IF acc.last # Null
    THEN [acc EXCEPT !.data[i][acc.column] = acc.last]
    ELSE acc

imputeWithForwardFill(data, column) ==
    FoldSeq(ForwardStep, [data |-> data, column |-> column, last |-> Null],
            [i \in 1..Len(data) |-> i]).data

imputeWithBackwardFillAscending(data, column) ==
    FoldSeq(ForwardStep, [data |-> data, column |-> column, last |-> Null],
            [i \in 1..Len(data) |-> i]).data

\* for (let i = data.length - 1; i >= 0; i--)
imputeWithBackwardFill(data, column) ==
    FoldSeq(ForwardStep, [data |-> data, column |-> column, last |-> Null],
            [i \in 1..Len(data) |-> Len(data) + 1 - i]).data

\* numericData[i].value: null for a missing cell, Number(cell) otherwise
NumericData(data, column) ==
    [i \in 1..Len(data) |->
        IF isNullOrEmpty(data[i][column]) THEN Null ELSE Number(data[i][column])]

InterpolateStep(acc, i) ==
    LET nd == acc.numericData
        before == {j \in 1..(i - 1) : nd[j] # Null}
        after == {j \in (i + 1)..Len(nd) : nd[j] # Null}
        prevIndex == CHOOSE j \in before : \A j2 \in before : j2 <= j
        nextIndex == CHOOSE j \in after : \A j2 \in after : j2 >= j
        stepSize == JsDiv(JsSub(nd[nextIndex], nd[prevIndex]), Int2V(nextIndex - prevIndex))
    IN IF nd[i] = Null /\ before # {} /\ after # {}
       THEN [acc EXCEPT !.data[i][acc.column] =
                 JsAdd(nd[prevIndex], JsMul(stepSize, Int2V(i - prevIndex)))]
       ELSE acc

imputeWithInterpolation(data, column) ==
    FoldSeq(InterpolateStep,
            [data |-> data, column |-> column, numericData |-> NumericData(data, column)],
            [i \in 1..Len(data) |-> i]).data

imputeWithCustomValueEveryCell(data, column, customValue) ==
    FillEvery(data, column, customValue)

imputeWithCustomValue(data, column, customValue) == FillMissing(data, column, customValue)

-----------------------------------------------------------------------------
(* DataImputation.imputeMissingData *)

ColumnNames == <<"a", "b">>

NoImputation ==
    [present |-> FALSE, originalNullCount |-> 0, imputedCount |-> 0,
     method |-> "", success |-> FALSE, error |-> ""]

ApplyMethodDefaultMean(data, strategy) ==
    CASE strategy.method = "median" -> imputeWithMedian(data, strategy.column)
      [] strategy.method = "mode" -> imputeWithMode(data, strategy.column)
      [] strategy.method = "forward_fill" -> imputeWithForwardFill(data, strategy.column)
      [] strategy.method = "backward_fill" -> imputeWithBackwardFill(data, strategy.column)
      [] strategy.method = "interpolation" -> imputeWithInterpolation(data, strategy.column)
      [] strategy.method = "custom" ->
             imputeWithCustomValue(data, strategy.column, strategy.customValue)
      [] OTHER -> imputeWithMean(data, strategy.column)

\* the switch on strategy.method; an unlisted method matches no case
ApplyMethod(data, strategy) ==
    CASE strategy.method = "mean" -> imputeWithMean(data, strategy.column)
      [] strategy.method = "median" -> imputeWithMedian(data, strategy.column)
      [] strategy.method = "mode" -> imputeWithMode(data, strategy.column)
      [] strategy.method = "forward_fill" -> imputeWithForwardFill(data, strategy.column)
      [] strategy.method = "backward_fill" -> imputeWithBackwardFill(data, strategy.column)
      [] strategy.method = "interpolation" -> imputeWithInterpolation(data, strategy.column)
      [] strategy.method = "custom" ->
             imputeWithCustomValue(data, strategy.column, strategy.customValue)
      [] OTHER -> data

\* whether the pass of the strategy throws: mean, median and interpolation
\* convert every cell that is not null, undefined or "" with Number(), which
\* throws a TypeError on a Symbol; they do so before they write any cell
Raises(data, strategy) ==
    /\ strategy.method \in {"mean", "median", "interpolation"}
    /\ \E i \in 1..Len(data) : data[i][strategy.column] = Sym

RaisedMessage == "Cannot convert a Symbol value to a number"

ApplyStrategyStopAfterFailure(acc, strategy) ==
    IF strategy.column \notin Range(ColumnNames) THEN acc
    ELSE IF \E k \in 1..Len(acc.steps) : ~acc.steps[k].result.success THEN acc
    ELSE LET originalNullCount == countNullValues(acc.data, strategy.column)
             raised == Raises(acc.data, strategy)
             after == IF raised THEN acc.data ELSE ApplyMethod(acc.data, strategy)
             finalNullCount == countNullValues(after, strategy.column)
             result == [present |-> TRUE,
                        originalNullCount |-> originalNullCount,
                        imputedCount |-> IF raised THEN 0
                                         ELSE originalNullCount - finalNullCount,
                        method |-> strategy.method,
                        success |-> ~raised,
                        error |-> IF raised THEN RaisedMessage ELSE ""]
         IN [data |-> after,
             results |-> [acc.results EXCEPT ![strategy.column] = result],
             steps |-> Append(acc.steps, [strategy |-> strategy,
                                          before |-> acc.data,
                                          after |-> after,
                                          result |-> result])]

\* one iteration of strategies.forEach.  data and imputedData hold the same
\* row objects, so originalNullCount is counted on the rows as they are now.
\* When the pass throws, the catch branch records the failure and the loop
\* goes on with the next strategy.
ApplyStrategy(acc, strategy) ==
    IF strategy.column \notin Range(ColumnNames) THEN acc
    ELSE LET originalNullCount == countNullValues(acc.data, strategy.column)
             raised == Raises(acc.data, strategy)
             after == IF raised THEN acc.data ELSE ApplyMethod(acc.data, strategy)
             finalNullCount == countNullValues(after, strategy.column)
             result == IF raised
                       THEN [present |-> TRUE,
                             originalNullCount |-> originalNullCount,
                             imputedCount |-> 0,
                             method |-> strategy.method,
                             success |-> FALSE,
                             error |-> RaisedMessage]
                       ELSE [present |-> TRUE,
                             originalNullCount |-> originalNullCount,
                             imputedCount |-> originalNullCount - finalNullCount,
                             method |-> strategy.method,
                             success |-> TRUE,
                             error |-> ""]
         IN [data |-> after,
             results |-> [acc.results EXCEPT ![strategy.column] = result],
             steps |-> Append(acc.steps, [strategy |-> strategy,
                                          before |-> acc.data,
                                          after |-> after,
                                          result |-> result])]

imputeMissingData(data, strats) ==
    LET r == FoldSeq(ApplyStrategy,
                     [data |-> data,
                      results |-> [c \in Range(ColumnNames) |-> NoImputation],
                      steps |-> <<>>],
                     strats)
    IN [imputedData |-> r.data, results |-> r.results, steps |-> r.steps]

-----------------------------------------------------------------------------
(* The imputation flow: handleImputation passes the dataset's rows, its      *)
(* columns and the strategies chosen in the dialog to imputeMissingData      *)

ImpCellsA == {Null, Str(""), Int2V(1), Int2V(2), Int2V(4), Str("abc")}

\* rows of a two-column dataset; column b is present in all rows but one
ImpRows ==
    {[c \in Keys |-> IF c = "a" THEN va ELSE Str("x")] : va \in ImpCellsA}
        \cup {[c \in Keys |-> IF c = "a" THEN Int2V(1) ELSE Null]}

RECURSIVE SeqsUpTo(_, _)
SeqsUpTo(S, n) ==
    IF n = 0 THEN {<<>>}
    ELSE LET shorter == SeqsUpTo(S, n - 1)
         IN shorter \cup {Append(sq, x) : sq \in {t \in shorter : Len(t) = n - 1}, x \in S}

Methods ==
    {"mean", "median", "mode", "forward_fill", "backward_fill", "interpolation", "other"}

CustomValues == {Str(" "), Int2V(5)}

Strategy(column, method, customValue) ==
    [column |-> column, method |-> method, customValue |-> customValue]

Strategies ==
    {Strategy("a", m, Undef) : m \in Methods}
        \cup {Strategy("a", "custom", v) : v \in CustomValues}
        \cup {Strategy("zz", "mean", Undef)}

ImpIdle ==
    /\ vizRows = <<>>
    /\ callRows = <<>>
    /\ imputedData = <<>>
    /\ impResults = [c \in Range(ColumnNames) |-> NoImputation]
    /\ impSteps = <<>>
    /\ impStrategies = <<>>
    /\ impPc = "idle"

NoEDA == [summary |-> <<>>, correlations |-> <<>>, outliers |-> <<>>,
          distributions |-> <<>>, patterns |-> <<>>]

EdaIdle ==
    /\ edaData = <<>>
    /\ edaColumns = <<>>
    /\ eda = NoEDA
    /\ edaPc = "idle"

\* the ids of the files the upload page is given
Files == {"f1", "f2"}

Absent == [status |-> "absent", hasProcessedData |-> FALSE, error |-> ""]

\* new DataStore(), and no processFile task begun
StoreIdle ==
    /\ datasets = [f \in Files |-> Absent]
    /\ notifications = 0
    /\ filePc = [f \in Files |-> "new"]
    /\ progress = [f \in Files |-> 0]
    /\ deleted = [f \in Files |-> FALSE]
    /\ deleteCalls = 0
    /\ imputeCalls = 0

EnhIdle ==
    /\ enhData = <<>>
    /\ catBefore = <<>>
    /\ catAfter = <<>>
    /\ enhCleaned = <<>>
    /\ enhPc = "idle"

EtlIdle ==
    /\ rawData = <<>>
    /\ headers = <<>>
    /\ lenientDates = FALSE
    /\ pc = "input"

InitImpute ==
    /\ EtlIdle
    /\ EnhIdle
    /\ EdaIdle
    /\ StoreIdle
    /\ processed = NoResult
    /\ vizRows \in SeqsUpTo(ImpRows, MaxImpRows)
    /\ callRows = vizRows
    /\ imputedData = <<>>
    /\ impResults = [c \in Range(ColumnNames) |-> NoImputation]
    /\ impSteps = <<>>
    /\ impStrategies = <<>>
    /\ impPc = "idle"

\* imputeMissingData(rawData, columns, strategies): the passes write into the
\* row objects of the array they were given, which the returned array shares
ImputeMissingData(strats) ==
    /\ impPc = "idle"
    /\ LET r == imputeMissingData(vizRows, strats)
       IN /\ callRows' = vizRows
          /\ vizRows' = r.imputedData
          /\ imputedData' = r.imputedData
          /\ impResults' = r.results
          /\ impSteps' = r.steps
    /\ impStrategies' = strats
    /\ impPc' = "done"
    /\ UNCHANGED <<etlVars, enhVars, edaVars, storeVars>>

NextImpute ==
    \E strats \in SeqsUpTo(Strategies, MaxStrategies) \ {<<>>} : ImputeMissingData(strats)

SpecImpute == InitImpute /\ [][NextImpute]_vars

\* imputeMissingData called with rows that may hold a Symbol in column a, and
\* with strategies on both columns
RaiseCellsA == {Null, Int2V(1), Sym}

RaiseCellsB == {Null, Str("x")}

RaiseRows == {[c \in Keys |-> IF c = "a" THEN va ELSE vb] : va \in RaiseCellsA, vb \in RaiseCellsB}

RaiseStrategies ==
    {Strategy("a", m, Undef) : m \in {"mean", "median", "interpolation", "mode"}}
        \cup {Strategy("b", "mode", Undef), Strategy("b", "custom", Str("y"))}

InitRaise ==
    /\ EtlIdle
    /\ EnhIdle
    /\ EdaIdle
    /\ StoreIdle
    /\ processed = NoResult
    /\ vizRows \in SeqsUpTo(RaiseRows, MaxImpRows)
    /\ callRows = vizRows
    /\ imputedData = <<>>
    /\ impResults = [c \in Range(ColumnNames) |-> NoImputation]
    /\ impSteps = <<>>
    /\ impStrategies = <<>>
    /\ impPc = "idle"

NextRaise ==
    \E strats \in SeqsUpTo(RaiseStrategies, MaxStrategies) \ {<<>>} : ImputeMissingData(strats)

SpecRaise == InitRaise /\ [][NextRaise]_vars

-----------------------------------------------------------------------------
(* EnhancedETLProcessor.enhancedCleanData.  The strings of its table are     *)
(* "N/A ", "N/A", "n/a", "NA", "Na", "n  a", "N  A", "N A", "yes", "Yes" and *)
(* the digit "0"; none holds an "@" or a mis-decoded UTF-8 sequence.         *)

\* String.prototype.toLowerCase
ToLowerCase(t) ==
    CASE t = Str("N/A") -> Str("n/a")
      [] t = Str("NA") -> Str("na")
      [] t = Str("Na") -> Str("na")
      [] t = Str("N  A") -> Str("n  a")
      [] t = Str("N A") -> Str("n a")
      [] t = Str("Yes") -> Str("yes")
      [] OTHER -> t

\* /^[^\s@]+@[^\s@]+\.[^\s@]+$/
IsEmailLike(t) == FALSE

\* /^[A-Za-z\s'-]+$/ and at most four space-separated parts
IsNameLike(t) == t \in {Str("NA"), Str("Na"), Str("n  a"), Str("N  A"), Str("N A"), Str("yes"), Str("Yes")}

\* every run of non-blank characters that starts with a word character gets
\* an upper-case first character and a lower-case rest
ToTitleCase(t) ==
    CASE t = Str("NA") -> Str("Na")
      [] t = Str("n  a") -> Str("N  A")
      [] t = Str("yes") -> Str("Yes")
      [] OTHER -> t

\* value.replace(/\s+/g, " ")
CollapseSpaces(t) ==
    CASE t = Str("N  A") -> Str("N A")
      [] t = Str("n  a") -> Str("n a")
      [] OTHER -> t

\* value.replace(/[^a-z0-9]/g, "") of a lower-case string
StripNonAlphanumerics(t) ==
    CASE t = Str("n/a") -> Str("na")
      [] t = Str("n  a") -> Str("na")
      [] t = Str("n a") -> Str("na")
      [] OTHER -> t

\* the cell of a string column after standardizeTextData
TextCell(value) ==
    IF value.k # "str" THEN value
    ELSE LET trimmed == Trim(value)
             cased == IF IsEmailLike(trimmed) THEN ToLowerCase(trimmed)
                      ELSE IF IsNameLike(trimmed) THEN ToTitleCase(trimmed)
                      ELSE trimmed
             spaced == CollapseSpaces(cased)
         IN IF spaced = Str("") THEN Null ELSE spaced

StringColumns(columns) == SelectSeq(columns, LAMBDA col : col.type = "string")

standardizeTextData(data, columns) ==
    LET textColumns == {col.name : col \in Range(StringColumns(columns))}
    IN [i \in 1..Len(data) |->
           [c \in DOMAIN data[i] |->
               IF c \in textColumns THEN TextCell(data[i][c]) ELSE data[i][c]]]

standardizeValue(value) ==
    IF value.k # "str" THEN ToStr(value)
    ELSE StripNonAlphanumerics(Trim(ToLowerCase(value)))

\* [...new Set(values)]: the distinct values in order of first appearance
AppendNew(sq, v) == IF v \in Range(sq) THEN sq ELSE Append(sq, v)

UniqueValues(values) == FoldSeq(AppendNew, <<>>, values)

\* values.filter((v) => v === variant).length
Occurrences(values, variant) ==
    Cardinality({i \in 1..Len(values) : values[i] = variant})

\* the keys of an object as Object.entries lists them
EntriesOrder(keys) ==
    CHOOSE sq \in [1..Len(keys) -> Range(keys)] :
        \A i, j \in 1..Len(keys) : i < j => EntryBefore(keys, sq[i], sq[j])

\* the own property of a mapping set last under the name, or undefined
Lookup(mapping, name) ==
    LET hits == {i \in 1..Len(mapping) : mapping[i].name = name}
    IN IF hits = {} THEN Undef
       ELSE mapping[CHOOSE i \in hits : \A i2 \in hits : i2 <= i].value

\* the standardization map of one column: the property writes
\* mapping[variant] = mostCommon in the order they are made
ColumnMapping(data, column) ==
    LET values == SelectSeq(Cells(data, column), LAMBDA v : v # Null /\ v # Undef)
        uniqueValues == UniqueValues(values)
        groupKeys == FoldSeq(LAMBDA keys, v : AppendNew(keys, standardizeValue(v)),
                             <<>>, uniqueValues)
        variantsOf(key) == SelectSeq(uniqueValues, LAMBDA v : standardizeValue(v) = key)
        mostCommon(variants) ==
            FoldSeq(LAMBDA a, b : IF Occurrences(values, a) > Occurrences(values, b)
                                  THEN a ELSE b,
                    Head(variants), Tail(variants))
        writes(key) ==
            [i \in 1..Len(variantsOf(key)) |->
                [name |-> ToStr(variantsOf(key)[i]), value |-> mostCommon(variantsOf(key))]]
    IN IF groupKeys = <<>> THEN <<>>
       ELSE FoldSeq(LAMBDA mapping, key : mapping \o writes(key), <<>>,
                    EntriesOrder(groupKeys))

\* the truthiness of a value in a condition
Truthy(v) ==
    ~ \/ v.k \in {"null", "undef", "nan"}
      \/ v = Str("")
      \/ (v.k = "num" /\ v.n = 0)
      \/ (v.k = "bool" /\ v.n = 0)

\* if (value && standardizationMaps[col.name][value]) cleanedRow[col.name] = ...
StandardizedCell(value, mapping) ==
    IF Truthy(value) /\ Truthy(Lookup(mapping, ToStr(value)))
    THEN Lookup(mapping, ToStr(value))
    ELSE value

standardizeCategoricalData(data, columns) ==
    LET categoricalColumns == {col.name : col \in Range(StringColumns(columns))}
    IN [i \in 1..Len(data) |->
           [c \in DOMAIN data[i] |->
               IF c \in categoricalColumns
               THEN StandardizedCell(data[i][c], ColumnMapping(data, c))
               ELSE data[i][c]]]

\* rows all of whose values are null, undefined or "" are removed
fixStructuralIssues(data) ==
    SelectSeq(data, LAMBDA row : \E c \in DOMAIN row : ~IsMissing(row[c]))

\* fixEncodingIssues finds none of its sequences in the strings of the table,
\* and handleNumericAnomalies and standardizeDates select the columns of type
\* number and date, of which EnhColumns has none: the three return the rows
\* with the cells they were given
EnhColumns == <<[name |-> "a", type |-> "string"], [name |-> "b", type |-> "boolean"]>>

EnhCellsA ==
    {Null, Str(""), Str("N/A "), Str("n/a"), Str("NA"), Str("n  a"), Str("yes"),
     Int2V(0), NumStr(0, 1)}

EnhCellsB == {Null, Bool(TRUE)}

EnhRows == {[c \in Keys |-> IF c = "a" THEN va ELSE vb] : va \in EnhCellsA, vb \in EnhCellsB}

InitEnhanced ==
    /\ EtlIdle
    /\ ImpIdle
    /\ EdaIdle
    /\ StoreIdle
    /\ processed = NoResult
    /\ enhData \in SeqsUpTo(EnhRows, MaxCatRows)
    /\ catBefore = <<>>
    /\ catAfter = <<>>
    /\ enhCleaned = <<>>
    /\ enhPc = "idle"

EnhancedCleanData ==
    /\ enhPc = "idle"
    /\ catBefore' = standardizeTextData(enhData, EnhColumns)
    /\ catAfter' = standardizeCategoricalData(catBefore', EnhColumns)
    /\ enhCleaned' = fixStructuralIssues(catAfter')
    /\ enhPc' = "done"
    /\ UNCHANGED <<enhData, etlVars, impVars, edaVars, storeVars>>

NextEnhanced == EnhancedCleanData

SpecEnhanced == InitEnhanced /\ [][NextEnhanced]_vars

-----------------------------------------------------------------------------
(* EnhancedETLProcessor.performEDA.  Arithmetic is exact on rationals and     *)
(* follows IEEE-754 for NaN and the infinities.  A quotient by a square root  *)
(* that is not rational is kept as a signed root: k = "root", s its sign and  *)
(* n/d its square.                                                            *)

IsInfinite(v) == v.k = "inf" \/ v.k = "neginf"

Sign(v) == IF v.k = "inf" THEN 1 ELSE IF v.k = "neginf" THEN -1
           ELSE IF v.n > 0 THEN 1 ELSE IF v.n < 0 THEN -1 ELSE 0

\* JavaScript a * b on numbers, the infinities included
JsTimes(a, b) ==
    IF a.k = "nan" \/ b.k = "nan" THEN NaNV
    ELSE IF IsInfinite(a) \/ IsInfinite(b)
    THEN (IF Sign(a) * Sign(b) = 0 THEN NaNV
          ELSE IF Sign(a) * Sign(b) > 0 THEN InfV ELSE NegInfV)
    ELSE Num(a.n * b.n, a.d * b.d)

\* JavaScript a + b on numbers, the infinities included
JsPlus(a, b) ==
    IF a.k = "nan" \/ b.k = "nan" THEN NaNV
    ELSE IF IsInfinite(a) /\ IsInfinite(b) THEN (IF a = b THEN a ELSE NaNV)
    ELSE IF IsInfinite(a) THEN a
    ELSE IF IsInfinite(b) THEN b
    ELSE Num(a.n * b.d + b.n * a.d, a.d * b.d)

\* a >= b and a <= b on numbers; any comparison with NaN is false
JsGreaterEq(a, b) ==
    IF a.k = "nan" \/ b.k = "nan" THEN FALSE
    ELSE IF a = b THEN TRUE
    ELSE IF a.k = "neginf" \/ b.k = "inf" THEN FALSE
    ELSE IF a.k = "inf" \/ b.k = "neginf" THEN TRUE
    ELSE a.n * b.d >= b.n * a.d

JsLessEq(a, b) == JsGreaterEq(b, a)

Root(sign, square) == [k |-> "root", s |-> sign, n |-> square.n, d |-> square.d]

\* denominator === 0 ? 0 : numerator / denominator, where denominator is
\* Math.sqrt(radicand)
QuotientBySqrt(numerator, radicand) ==
    IF radicand.k = "nan" \/ radicand.k = "neginf" THEN NaNV
    ELSE IF radicand.k = "inf"
    THEN (IF IsFinite(numerator) THEN Int2V(0) ELSE NaNV)
    ELSE IF radicand.n < 0 THEN NaNV
    ELSE IF radicand.n = 0 THEN Int2V(0)
    ELSE IF ~IsFinite(numerator) THEN numerator
    ELSE IF numerator.n = 0 THEN Int2V(0)
    ELSE IF JsTimes(numerator, numerator) = radicand THEN Int2V(Sign(numerator))
    ELSE Root(IF numerator.n > 0 THEN "+" ELSE "-",
              JsDiv(JsTimes(numerator, numerator), radicand))

calculatePearsonCorrelation(x, y) ==
    LET n == IF Len(x) < Len(y) THEN Len(x) ELSE Len(y)
        xs == SubSeq(x, 1, n)
        ys == SubSeq(y, 1, n)
        sumX == FoldSeq(JsPlus, Int2V(0), xs)
        sumY == FoldSeq(JsPlus, Int2V(0), ys)
        sumXY == FoldSeq(JsPlus, Int2V(0), [i \in 1..n |-> JsTimes(xs[i], ys[i])])
        sumX2 == FoldSeq(JsPlus, Int2V(0), [i \in 1..n |-> JsTimes(xs[i], xs[i])])
        sumY2 == FoldSeq(JsPlus, Int2V(0), [i \in 1..n |-> JsTimes(ys[i], ys[i])])
        numerator == JsSub(JsTimes(Int2V(n), sumXY), JsTimes(sumX, sumY))
        radicand == JsTimes(JsSub(JsTimes(Int2V(n), sumX2), JsTimes(sumX, sumX)),
                            JsSub(JsTimes(Int2V(n), sumY2), JsTimes(sumY, sumY)))
    IN IF n = 0 THEN Int2V(0) ELSE QuotientBySqrt(numerator, radicand)

NumericColumns(columns) == SelectSeq(columns, LAMBDA col : col.type = "number")

\* the index pairs i < j of the nested loops, in the order they are visited
IndexPairs(n) ==
    FoldSeq(LAMBDA acc, i : acc \o [k \in 1..(n - i) |-> <<i, i + k>>],
            <<>>, [i \in 1..n |-> i])

\* data.map(row => [Number(row[col1]), Number(row[col2])])
\*     .filter(([x, y]) => !isNaN(x) && !isNaN(y))
CoObserved(data, col1, col2) ==
    SelectSeq([i \in 1..Len(data) |-> <<Number(data[i][col1]), Number(data[i][col2])>>],
              LAMBDA pair : ~IsNaN(pair[1]) /\ ~IsNaN(pair[2]))

calculateAdvancedCorrelations(data, columns) ==
    LET numericColumns == NumericColumns(columns)
        entry(ij) ==
            LET col1 == numericColumns[ij[1]].name
                col2 == numericColumns[ij[2]].name
                pairs == CoObserved(data, col1, col2)
            IN IF Len(pairs) > 1
               THEN <<[column1 |-> col1, column2 |-> col2,
                       correlation |->
                           calculatePearsonCorrelation(
                               [i \in 1..Len(pairs) |-> pairs[i][1]],
                               [i \in 1..Len(pairs) |-> pairs[i][2]])]>>
               ELSE <<>>
    IN FoldSeq(LAMBDA acc, ij : acc \o entry(ij), <<>>,
               IndexPairs(Len(numericColumns)))

\* data.map(row => Number(row[col.name])).filter(val => !isNaN(val))
NumbersOf(data, column) ==
    SelectSeq([i \in 1..Len(data) |-> Number(data[i][column])], LAMBDA val : ~IsNaN(val))

percentile(values, p) ==
    LET index == Num(p * (Len(values) - 1), 100)
        lower == index.n \div index.d
        upper == IF index.d = 1 THEN lower ELSE lower + 1
        weight == JsSub(index, Int2V(lower))
    IN IF upper >= Len(values) THEN values[Len(values)]
       ELSE JsPlus(JsTimes(values[lower + 1], JsSub(Int2V(1), weight)),
                   JsTimes(values[upper + 1], weight))

\* iqrOutliers.slice(0, 10)
FirstTen(values) == SubSeq(values, 1, IF Len(values) < 10 THEN Len(values) ELSE 10)

\* val < lowerBound || val > upperBound
IqrOutliers(values) ==
    LET q1 == percentile(values, 25)
        q3 == percentile(values, 75)
        iqr == JsSub(q3, q1)
        lowerBound == JsSub(q1, JsTimes(Num(3, 2), iqr))
        upperBound == JsPlus(q3, JsTimes(Num(3, 2), iqr))
    IN SelectSeq(values, LAMBDA val : JsLess(val, lowerBound) \/ JsLess(upperBound, val))

Mean(values) == JsDiv(FoldSeq(JsPlus, Int2V(0), values), Int2V(Len(values)))

\* the square of stdDev
Variance(values) ==
    LET mean == Mean(values)
    IN JsDiv(FoldSeq(LAMBDA sum, val : JsPlus(sum, JsTimes(JsSub(val, mean), JsSub(val, mean))),
                     Int2V(0), values),
             Int2V(Len(values)))

\* Math.abs((val - mean) / stdDev) > 3, decided on the squares
IsZScoreOutlierThresholdOne(val, mean, variance) ==
    /\ IsFinite(val) /\ IsFinite(mean) /\ IsFinite(variance)
    /\ variance.n > 0
    /\ JsLess(variance, JsTimes(JsSub(val, mean), JsSub(val, mean)))

IsZScoreOutlier(val, mean, variance) ==
    /\ IsFinite(val) /\ IsFinite(mean) /\ IsFinite(variance)
    /\ variance.n > 0
    /\ JsLess(JsTimes(Int2V(9), variance), JsTimes(JsSub(val, mean), JsSub(val, mean)))

ZScoreOutliers(values) ==
    LET mean == Mean(values)
        variance == Variance(values)
    IN SelectSeq(values, LAMBDA val : IsZScoreOutlier(val, mean, variance))

OutlierEntry(column, method, found) ==
    IF Len(found) > 0
    THEN <<[column |-> column, method |-> method, count |-> Len(found),
            values |-> FirstTen(found)]>>
    ELSE <<>>

detectAdvancedOutliers(data, columns) ==
    LET ofColumn(col) ==
            LET values == SortAscending(NumbersOf(data, col.name))
            IN IF Len(values) > 4
               THEN OutlierEntry(col.name, "IQR", IqrOutliers(values))
                    \o OutlierEntry(col.name, "Z-Score", ZScoreOutliers(values))
               ELSE <<>>
    IN FoldSeq(LAMBDA acc, col : acc \o ofColumn(col), <<>>, NumericColumns(columns))

\* each bin carries the two numbers its label prints with toFixed(2)
createHistogram(values, bins) ==
    LET min == FoldSeq(JsMin, Head(values), Tail(values))
        max == FoldSeq(JsMax, Head(values), Tail(values))
        binWidth == JsDiv(JsSub(max, min), Int2V(bins))
        bin(i) ==
            LET binStart == JsPlus(min, JsTimes(Int2V(i), binWidth))
                binEnd == JsPlus(min, JsTimes(Int2V(i + 1), binWidth))
            IN [binStart |-> binStart, binEnd |-> binEnd,
                count |-> Len(SelectSeq(values, LAMBDA val :
                              /\ JsGreaterEq(val, binStart)
                              /\ IF i = bins - 1 THEN JsLessEq(val, binEnd)
                                                 ELSE JsLess(val, binEnd)))]
    IN [b \in 1..bins |-> bin(b - 1)]

RECURSIVE InsertByCount(_, _)

\* .sort((a, b) => b.count - a.count), a stable sort
InsertByCount(sorted, entry) ==
    IF sorted = <<>> THEN <<entry>>
    ELSE IF Head(sorted).count < entry.count THEN <<entry>> \o sorted
    ELSE <<Head(sorted)>> \o InsertByCount(Tail(sorted), entry)

createFrequencyTable(values) ==
    LET keys == FoldSeq(AddKey, <<>>, values)
        entries == EntriesOrder(keys)
    IN FoldSeq(InsertByCount, <<>>,
               [i \in 1..Len(entries) |->
                   [value |-> entries[i],
                    count |-> Len(SelectSeq(values, LAMBDA val : ToStr(val) = entries[i]))]])

analyzeDistributions(data, columns) ==
    LET ofColumn(col) ==
            IF col.type = "number"
            THEN (IF Len(NumbersOf(data, col.name)) > 0
                  THEN <<[column |-> col.name, type |-> "numeric",
                          histogram |-> createHistogram(NumbersOf(data, col.name), 10),
                          frequency |-> <<>>]>>
                  ELSE <<>>)
            ELSE IF col.type = "string"
            THEN LET values == SelectSeq([i \in 1..Len(data) |-> data[i][col.name]],
                                         LAMBDA val : val.k \notin {"null", "undef"})
                     frequency == createFrequencyTable(values)
                 IN <<[column |-> col.name, type |-> "categorical",
                       histogram |-> <<>>,
                       frequency |-> SubSeq(frequency, 1,
                           IF Len(frequency) < 20 THEN Len(frequency) ELSE 20)]>>
            ELSE <<>>
    IN FoldSeq(LAMBDA acc, col : acc \o ofColumn(col), <<>>, columns)

\* new Set(data.map(row => row[col.name]).filter(val => val))
TruthyValues(data, column) ==
    {data[i][column] : i \in {r \in 1..Len(data) : Truthy(data[r][column])}}

Smaller(a, b) == IF a < b THEN a ELSE b

SimilarityOverLarger(data, col1, col2) ==
    JsDiv(Int2V(Cardinality(TruthyValues(data, col1) \cap TruthyValues(data, col2))),
          Int2V(IF Cardinality(TruthyValues(data, col1)) < Cardinality(TruthyValues(data, col2))
                THEN Cardinality(TruthyValues(data, col2))
                ELSE Cardinality(TruthyValues(data, col1))))

\* intersection.size / Math.min(values1.size, values2.size)
Similarity(data, col1, col2) ==
    JsDiv(Int2V(Cardinality(TruthyValues(data, col1) \cap TruthyValues(data, col2))),
          Int2V(Smaller(Cardinality(TruthyValues(data, col1)),
                        Cardinality(TruthyValues(data, col2)))))

\* Math.round of a finite number
MathRound(v) == (2 * v.n + v.d) \div (2 * v.d)

\* the patterns, without their description texts; a relationship carries the
\* percentage its description prints
detectPatterns(data, columns) ==
    LET primaryKey(col) ==
            IF col.unique /\ col.hasStats /\ col.nullCount = 0
            THEN <<[type |-> "primary_key", columns |-> <<col.name>>,
                    confidence |-> Num(9, 10)]>>
            ELSE <<>>
        stringColumns == SelectSeq(columns, LAMBDA col : col.type = "string")
        relationship(ij) ==
            LET col1 == stringColumns[ij[1]].name
                col2 == stringColumns[ij[2]].name
                similarity == Similarity(data, col1, col2)
            IN IF JsLess(Num(7, 10), similarity)
               THEN <<[type |-> "potential_relationship", columns |-> <<col1, col2>>,
                       confidence |-> similarity,
                       percent |-> MathRound(JsTimes(similarity, Int2V(100)))]>>
               ELSE <<>>
        dateColumns == SelectSeq(columns, LAMBDA col : col.type = "date")
    IN FoldSeq(LAMBDA acc, col : acc \o primaryKey(col), <<>>, columns)
       \o FoldSeq(LAMBDA acc, ij : acc \o relationship(ij), <<>>,
                  IndexPairs(Len(stringColumns)))
       \o (IF Len(dateColumns) > 0
           THEN <<[type |-> "time_series",
                   columns |-> [i \in 1..Len(dateColumns) |-> dateColumns[i].name],
                   confidence |-> Num(8, 10)]>>
           ELSE <<>>)

\* shape and dataTypes; memoryUsage, the length of the JSON text, is not carried
generateSummary(data, columns) ==
    [shape |-> <<Len(data), Len(columns)>>,
     dataTypes |-> [t \in {columns[i].type : i \in 1..Len(columns)} |->
                       Cardinality({i \in 1..Len(columns) : columns[i].type = t})]]

performEDA(data, columns) ==
    [summary |-> generateSummary(data, columns),
     correlations |-> calculateAdvancedCorrelations(data, columns),
     outliers |-> detectAdvancedOutliers(data, columns),
     distributions |-> analyzeDistributions(data, columns),
     patterns |-> detectPatterns(data, columns)]

Column(name, type) ==
    [name |-> name, type |-> type, unique |-> FALSE, hasStats |-> FALSE, nullCount |-> 0]

\* nothing but performEDA is used
OtherFlowsIdle == EtlIdle /\ processed = NoResult /\ ImpIdle /\ EnhIdle /\ StoreIdle

PerformEDA ==
    /\ edaPc = "idle"
    /\ eda' = performEDA(edaData, edaColumns)
    /\ edaPc' = "done"
    /\ UNCHANGED <<edaData, edaColumns, etlVars, impVars, enhVars, storeVars>>

NextEDA == PerformEDA

(* Correlations: three numeric columns *)
MaxCorrRows == 3

CorrCellsA == {Null, Int2V(2), InfV}

CorrCellsB == {Null, Int2V(1)}

CorrCellsC == {Int2V(1), Int2V(2)}

CorrRows ==
    {[a |-> x, b |-> y, c |-> z] : x \in CorrCellsA, y \in CorrCellsB, z \in CorrCellsC}

InitCorrelations ==
    /\ edaData \in SeqsUpTo(CorrRows, MaxCorrRows)
    /\ edaColumns = <<Column("a", "number"), Column("b", "number"), Column("c", "number")>>
    /\ eda = NoEDA
    /\ edaPc = "idle"
    /\ OtherFlowsIdle

SpecCorrelations == InitCorrelations /\ [][NextEDA]_vars

(* Outliers and histograms: one numeric column.  A Z-score above 3 needs at *)
(* least eleven values, so the inputs also include the eleven-row columns    *)
(* over two values.                                                          *)
MaxOutlierRows == 5

OutlierCells == {Null, Int2V(1), Int2V(2), Int2V(3), Int2V(4), Int2V(100)}

OutlierRows == {[a |-> x] : x \in OutlierCells}

ZScoreRows == [1..11 -> {[a |-> Int2V(1)], [a |-> Int2V(100)]}]

InitOutliers ==
    /\ edaData \in SeqsUpTo(OutlierRows, MaxOutlierRows) \cup ZScoreRows
    /\ edaColumns = <<Column("a", "number")>>
    /\ eda = NoEDA
    /\ edaPc = "idle"
    /\ OtherFlowsIdle

SpecOutliers == InitOutliers /\ [][NextEDA]_vars

(* Patterns: two string columns, the first with empty cells, and a third    *)
(* column of null cells that is a date, a marked unique key with or without *)
(* statistics, or a string column                                           *)
MaxPatternRows == 3

PatternCellsA == {Str(""), Str("a"), Str("b"), Str("c")}

PatternCellsB == {Str("a"), Str("b"), Str("d")}

PatternRows == {[a |-> x, b |-> y, c |-> Null] : x \in PatternCellsA, y \in PatternCellsB}

ThirdColumns ==
    {Column("c", "date"), Column("c", "string"),
     [Column("c", "number") EXCEPT !.unique = TRUE],
     [Column("c", "number") EXCEPT !.unique = TRUE, !.hasStats = TRUE],
     [Column("c", "number") EXCEPT !.unique = TRUE, !.hasStats = TRUE, !.nullCount = 1]}

InitPatterns ==
    /\ edaData \in SeqsUpTo(PatternRows, MaxPatternRows)
    /\ \E third \in ThirdColumns :
           edaColumns = <<Column("a", "string"), Column("b", "string"), third>>
    /\ eda = NoEDA
    /\ edaPc = "idle"
    /\ OtherFlowsIdle

SpecPatterns == InitPatterns /\ [][NextEDA]_vars

-----------------------------------------------------------------------------
(* DataStore and the tasks that write to it: processFile of the upload page, *)
(* the delete button of the data-management page and handleImputation of the *)
(* dashboard page.  A store is the record of its datasets map and of the     *)
(* number of notify() runs; a dataset is kept by the fields the tasks write. *)

Store == [datasets |-> datasets, notifications |-> notifications]

\* { ...dataset, ...updates }
Merge(dataset, updates) ==
    [field \in DOMAIN dataset |->
        IF field \in DOMAIN updates THEN updates[field] ELSE dataset[field]]

addDataset(store, id, dataset) ==
    [datasets |-> [store.datasets EXCEPT ![id] = dataset],
     notifications |-> store.notifications + 1]

updateDatasetUnguarded(store, id, updates) ==
    [datasets |-> [store.datasets EXCEPT ![id] = Merge(@, updates)],
     notifications |-> store.notifications + 1]

updateDataset(store, id, updates) ==
    IF store.datasets[id] # Absent
    THEN [datasets |-> [store.datasets EXCEPT ![id] = Merge(@, updates)],
          notifications |-> store.notifications + 1]
    ELSE store

deleteDataset(store, id) ==
    [datasets |-> [store.datasets EXCEPT ![id] = Absent],
     notifications |-> store.notifications + 1]

MaxDeletes == 2

MaxImputations == 1

SetStore(store) ==
    /\ datasets' = store.datasets
    /\ notifications' = store.notifications

\* processFile up to its first await: addDataset with status "uploading"
StartProcessFile(f) ==
    /\ filePc[f] = "new"
    /\ SetStore(addDataset(Store, f, [Absent EXCEPT !.status = "uploading"]))
    /\ filePc' = [filePc EXCEPT ![f] = "loop"]
    /\ UNCHANGED <<progress, deleted, deleteCalls, imputeCalls>>
    /\ UNCHANGED <<etlVars, impVars, enhVars, edaVars>>

\* a timer of the upload loop fires: the loop goes round, or ends, and then
\* updateDataset(fileId, {status: "processing"}) runs and extractData is awaited
TimerFires(f) ==
    /\ filePc[f] = "loop"
    /\ IF progress[f] + 10 <= 50
       THEN /\ progress' = [progress EXCEPT ![f] = @ + 10]
            /\ UNCHANGED <<datasets, notifications, filePc>>
       ELSE /\ SetStore(updateDataset(Store, f, [status |-> "processing"]))
            /\ filePc' = [filePc EXCEPT ![f] = "extract"]
            /\ UNCHANGED progress
    /\ UNCHANGED <<deleted, deleteCalls, imputeCalls>>
    /\ UNCHANGED <<etlVars, impVars, enhVars, edaVars>>

\* extractData settles: the data are transformed and the dataset completed,
\* or something threw and the catch branch records the error
ExtractSettles(f, ok) ==
    /\ filePc[f] = "extract"
    /\ SetStore(updateDataset(Store, f,
           IF ok THEN [status |-> "completed", hasProcessedData |-> TRUE]
                 ELSE [status |-> "error", error |-> "message"]))
    /\ filePc' = [filePc EXCEPT ![f] = "end"]
    /\ UNCHANGED <<progress, deleted, deleteCalls, imputeCalls>>
    /\ UNCHANGED <<etlVars, impVars, enhVars, edaVars>>

\* the delete button of a dataset that has been listed
DeleteDataset(f) ==
    /\ filePc[f] # "new"
    /\ deleteCalls < MaxDeletes
    /\ SetStore(deleteDataset(Store, f))
    /\ deleted' = [deleted EXCEPT ![f] = TRUE]
    /\ deleteCalls' = deleteCalls + 1
    /\ UNCHANGED <<filePc, progress, imputeCalls>>
    /\ UNCHANGED <<etlVars, impVars, enhVars, edaVars>>

\* handleImputation on the selected completed dataset: new processedData and
\* visualizationData are written, the status is not
HandleImputation(f) ==
    /\ datasets[f].status = "completed"
    /\ datasets[f].hasProcessedData
    /\ imputeCalls < MaxImputations
    /\ SetStore(updateDataset(Store, f, [hasProcessedData |-> TRUE]))
    /\ imputeCalls' = imputeCalls + 1
    /\ UNCHANGED <<filePc, progress, deleted, deleteCalls>>
    /\ UNCHANGED <<etlVars, impVars, enhVars, edaVars>>

InitStore ==
    /\ StoreIdle
    /\ EtlIdle /\ processed = NoResult /\ ImpIdle /\ EnhIdle /\ EdaIdle

NextStore ==
    \E f \in Files :
        \/ StartProcessFile(f)
        \/ TimerFires(f)
        \/ \E ok \in BOOLEAN : ExtractSettles(f, ok)
        \/ DeleteDataset(f)
        \/ HandleImputation(f)

SpecStore == InitStore /\ [][NextStore]_vars

-----------------------------------------------------------------------------
(* The upload flow: the front-end hands over rows and headers, transformData *)
(* runs on them, and the cleaned rows may be fed through transformData again *)

HeaderChoices == {<<>>, <<"a">>, <<"a", "b">>}

CellsA ==
    {Null, Str(""), Str(" "), Str(" true"), NumStr(1, 1), Str("Infinity"),
     Str("2020-01-01"), Bool(TRUE)}

CellsB == {Undef, Str("x")}

RawRows == {[c \in Keys |-> IF c = "a" THEN va ELSE vb] : va \in CellsA, vb \in CellsB}

Init ==
    /\ rawData = <<>>
    /\ headers \in HeaderChoices
    /\ lenientDates \in BOOLEAN
    /\ processed = NoResult
    /\ pc = "input"
    /\ ImpIdle
    /\ EnhIdle
    /\ EdaIdle
    /\ StoreIdle

\* the front-end appends one parsed row
ParseRow(row) ==
    /\ pc = "input"
    /\ Len(rawData) < MaxRows
    /\ rawData' = Append(rawData, row)
    /\ UNCHANGED <<headers, lenientDates, processed, pc>>
    /\ UNCHANGED <<impVars, enhVars, edaVars, storeVars>>

\* processFile: transformData(data, headers)
Transform ==
    /\ pc = "input"
    /\ processed' = transformData(rawData, headers, lenientDates)
    /\ pc' = "first"
    /\ UNCHANGED <<rawData, headers, lenientDates>>
    /\ UNCHANGED <<impVars, enhVars, edaVars, storeVars>>

\* the cleaned rows are run through transformData once more, same headers
Retransform ==
    /\ pc = "first"
    /\ processed' = transformData(processed.data, headers, lenientDates)
    /\ pc' = "second"
    /\ UNCHANGED <<rawData, headers, lenientDates>>
    /\ UNCHANGED <<impVars, enhVars, edaVars, storeVars>>

Next ==
    \/ \E row \in RawRows : ParseRow(row)
    \/ Transform
    \/ Retransform

Spec == Init /\ [][Next]_vars

-----------------------------------------------------------------------------
(* Properties of transformData *)

\* the rows schema inference and cleaning ran on in the first run
SurvivingInput == SelectSeq(rawData, RowHasValue)

MissingIn(data, name) == {i \in 1..Len(data) : IsMissing(data[i][name])}

\* C1: for every input to transformData, qualityReport.qualityScore is a
\* number in the closed range 0..100.
C1_ScoreInRange ==
    pc # "input" =>
        LET score == processed.qualityReport.qualityScore
        IN score.k = "num" /\ score.d = 1 /\ score.n >= 0 /\ score.n <= 100

\* C2: when originalRowCount = 0 the duplicate penalty is 0, when
\* totalRows * totalColumns = 0 the missing-value penalty is 0, and the score
\* is then 100 minus the remaining terms, clamped and rounded.
C2_ZeroDenominatorGuarded ==
    pc # "input" =>
        LET q == processed.qualityReport
            dupPen == IF processed.originalRowCount = 0 THEN Int2V(0)
                      ELSE DuplicatePenalty(q.duplicateRows, processed.originalRowCount)
            missPen == IF q.totalRows * q.totalColumns = 0 THEN Int2V(0)
                       ELSE MissingPenalty(q.nullValues, q.totalRows, q.totalColumns)
        IN (processed.originalRowCount = 0 \/ q.totalRows * q.totalColumns = 0) =>
              q.qualityScore =
                  ClampRound(JsSub(JsSub(JsSub(Int2V(100), dupPen), missPen),
                                   Int2V(5 * Len(q.issues))))

\* C3: transformData run on the rows returned by a first run, with the same
\* headers, reports duplicateRows = 0.
C3_SecondRunNoDuplicates ==
    pc = "second" => processed.qualityReport.duplicateRows = 0

\* C4: the returned columns describe the returned rows: nullCount is the
\* number of returned rows missing that column, nullable says whether there
\* is one, and nullValues is the number of missing cells of the returned rows.
C4_ColumnsDescribeReturnedRows ==
    pc # "input" =>
        LET cols == processed.columns
            missing(i) == Cardinality(MissingIn(processed.data, cols[i].name))
            RECURSIVE total(_)
            total(i) == IF i = 0 THEN 0 ELSE missing(i) + total(i - 1)
        IN /\ \A i \in 1..Len(cols) :
                /\ cols[i].stats.nullCount = missing(i)
                /\ cols[i].nullable <=> (missing(i) > 0)
           /\ processed.qualityReport.nullValues = total(Len(cols))

\* C5: a column with no non-null, non-empty value among the rows (zero rows
\* included) is inferred as string.
C5_EmptyColumnIsString ==
    pc = "first" =>
        \A i \in 1..Len(processed.columns) :
            ColumnValues(SurvivingInput, processed.columns[i].name) = <<>>
                => processed.columns[i].type = "string"

\* C6: the type of a column is boolean iff all its observed values are
\* boolean-like; else number iff all parse to a finite number; else date iff
\* all parse to a valid date; else string.
C6_TypePriority ==
    pc = "first" =>
        \A i \in 1..Len(processed.columns) :
            LET vals == Range(ColumnValues(SurvivingInput, processed.columns[i].name))
                allBool == \A v \in vals : IsBooleanLike(v)
                allNum == \A v \in vals : IsFinite(Number(v))
                allDate == \A v \in vals : DateParses(v, lenientDates)
                type == processed.columns[i].type
            IN /\ type = "boolean" <=> allBool
               /\ type = "number" <=> (~allBool /\ allNum)
               /\ type = "date" <=> (~allBool /\ ~allNum /\ allDate)
               /\ type = "string" <=> (~allBool /\ ~allNum /\ ~allDate)

\* the rows handed to duplicate removal in the first run
CleanedInput == cleanData(SurvivingInput, processed.columns, lenientDates)

\* positions of the rows that are the first with their serialization
FirstOccurrences(data) ==
    {i \in 1..Len(data) :
        \A j \in 1..(i - 1) : Stringify(data[j]) # Stringify(data[i])}

\* C7: duplicate removal keeps exactly the first occurrence of each distinct
\* serialized row, in the original order, and duplicateCount is the number of
\* discarded rows.
C7_FirstOccurrenceKept ==
    pc = "first" =>
        LET given == CleanedInput
            kept == FirstOccurrences(given)
            out == processed.data
            nth(k) == CHOOSE i \in kept : Cardinality({j \in kept : j <= i}) = k
        IN /\ Len(out) = Cardinality(kept)
           /\ \A k \in 1..Len(out) : out[k] = given[nth(k)]
           /\ Len(out) + processed.qualityReport.duplicateRows = Len(given)
           /\ \A k1, k2 \in 1..Len(out) :
                 Stringify(out[k1]) = Stringify(out[k2]) => k1 = k2

\* a duplicate was dropped from between two rows that both survive
C7_Witness ==
    /\ pc = "first"
    /\ processed.qualityReport.duplicateRows > 0
    /\ Len(processed.data) >= 2
    /\ Stringify(CleanedInput[1]) = Stringify(CleanedInput[2])

SuggestionFor(tag) ==
    CASE tag = "duplicates" -> "review_source"
      [] tag = "missing" -> "impute"
      [] tag = "column_missing" -> "impute_column"
      [] OTHER -> "none"

\* C8: issues appear in the order duplicates, high-missing-values, then one
\* per column with more than half of its rows missing, in column order; each
\* issue has its suggestion at the same position.
C8_IssueOrder ==
    pc # "input" =>
        LET q == processed.qualityReport
            cols == processed.columns
            nDup == IF q.duplicateRows > 0 THEN 1 ELSE 0
            nMiss == IF 10 * q.nullValues > q.totalRows * q.totalColumns THEN 1 ELSE 0
            bad == {i \in 1..Len(cols) : 2 * cols[i].stats.nullCount > q.totalRows}
            nth(k) == CHOOSE i \in bad : Cardinality({j \in bad : j <= i}) = k
        IN /\ Len(q.issues) = nDup + nMiss + Cardinality(bad)
           /\ Len(q.suggestions) = Len(q.issues)
           /\ nDup = 1 => q.issues[1] = Issue("duplicates", q.duplicateRows, "")
           /\ nMiss = 1 => q.issues[nDup + 1] = Issue("missing", q.nullValues, "")
           /\ \A k \in 1..Cardinality(bad) :
                 q.issues[nDup + nMiss + k] = Issue("column_missing", 0, cols[nth(k)].name)
           /\ \A k \in 1..Len(q.issues) :
                 /\ q.suggestions[k].tag = SuggestionFor(q.issues[k].tag)
                 /\ q.suggestions[k].col = q.issues[k].col

\* all three kinds of issue are reported at once, in a two-column dataset
C8_Witness ==
    /\ pc # "input"
    /\ Len(processed.columns) = 2
    /\ Len(processed.qualityReport.issues) = 3
    /\ processed.qualityReport.issues[1].tag = "duplicates"
    /\ processed.qualityReport.issues[2].tag = "missing"
    /\ processed.qualityReport.issues[3].tag = "column_missing"

-----------------------------------------------------------------------------
(* Properties of imputeMissingData *)

StepsOf(methods) == {k \in 1..Len(impSteps) : impSteps[k].strategy.method \in methods}

\* a cell that is not missing and converts to a number
HasNumericValue(data, column) ==
    \E i \in 1..Len(data) : ~isNullOrEmpty(data[i][column]) /\ ~IsNaN(Number(data[i][column]))

\* C9: mean and median imputation leave every cell that was not missing
\* unchanged and, when the column has a valid numeric value, leave no missing
\* cell in it (imputedCount = originalNullCount).
C9_MeanMedianFillAll ==
    \A k \in StepsOf({"mean", "median"}) :
        LET st == impSteps[k]
            col == st.strategy.column
        IN /\ Len(st.after) = Len(st.before)
           /\ \A i \in 1..Len(st.before) : \A c \in Keys :
                 ~isNullOrEmpty(st.before[i][c]) => st.after[i][c] = st.before[i][c]
           /\ HasNumericValue(st.before, col) =>
                 /\ countNullValues(st.after, col) = 0
                 /\ k = Len(impSteps) =>
                       impResults[col].imputedCount = impResults[col].originalNullCount

\* a single mean or median pass filled two missing cells next to cells that
\* kept their value
C9_Witness ==
    /\ impPc = "done"
    /\ Len(impSteps) = 1
    /\ impSteps[1].strategy.method \in {"mean", "median"}
    /\ HasNumericValue(impSteps[1].before, "a")
    /\ countNullValues(impSteps[1].before, "a") = 2
    /\ impResults["a"].imputedCount = 2

\* C10: mean, median and mode use the one notion of missing (null, undefined,
\* empty or whitespace-only string) for the cells they fill and for the values
\* they draw on: a column whose cells are all missing is left unchanged.
C10_AllMissingColumnUnchanged ==
    \A k \in StepsOf({"mean", "median", "mode"}) :
        LET st == impSteps[k]
        IN (\A i \in 1..Len(st.before) : isNullOrEmpty(st.before[i][st.strategy.column]))
              => st.after = st.before

\* the cells of a column that are not null, undefined or "", in row order
NonNullCells(data, column) ==
    SelectSeq(Cells(data, column), LAMBDA v : ~IsMissing(v))

\* the index in values of the most frequent text, the first encountered in
\* row order among the texts that tie
FirstMostFrequent(values) ==
    LET freq(i) == Cardinality({j \in 1..Len(values) : ToStr(values[j]) = ToStr(values[i])})
        first(i) == CHOOSE j \in 1..i :
                        /\ ToStr(values[j]) = ToStr(values[i])
                        /\ \A j2 \in 1..(j - 1) : ToStr(values[j2]) # ToStr(values[i])
    IN CHOOSE i \in 1..Len(values) :
          /\ first(i) = i
          /\ \A j \in 1..Len(values) :
                \/ freq(i) > freq(j)
                \/ (freq(i) = freq(j) /\ i <= first(j))

\* C11: mode imputation writes into every missing cell the most frequent
\* value of the column's non-null cells (values compared by their text); among
\* equally frequent values the one met first in row order wins.
C11_ModeFirstEncountered ==
    \A k \in StepsOf({"mode"}) :
        LET st == impSteps[k]
            col == st.strategy.column
            values == NonNullCells(st.before, col)
        IN Len(values) > 0 =>
              \A i \in 1..Len(st.before) :
                  isNullOrEmpty(st.before[i][col]) =>
                      ToStr(st.after[i][col]) = ToStr(values[FirstMostFrequent(values)])
\* the rows whose cell of the column is not missing
PresentRows(data, column) == {j \in 1..Len(data) : ~isNullOrEmpty(data[j][column])}

Greatest(S) == CHOOSE j \in S : \A j2 \in S : j2 <= j

Least(S) == CHOOSE j \in S : \A j2 \in S : j2 >= j

\* C12: forward fill gives every missing cell that has a cell that is not
\* missing somewhere before it the value of the nearest such cell of the
\* column as it was before the pass, and leaves the missing cells before the
\* first such cell as they are; backward fill does the same with the nearest
\* following cell and leaves the missing cells after the last one.
C12_FillFromNearest ==
    \A k \in StepsOf({"forward_fill", "backward_fill"}) :
        LET st == impSteps[k]
            col == st.strategy.column
            forward == st.strategy.method = "forward_fill"
            present == PresentRows(st.before, col)
        IN \A i \in 1..Len(st.before) :
              LET sources == IF forward THEN {j \in present : j < i}
                             ELSE {j \in present : j > i}
                  nearest == IF forward THEN Greatest(sources) ELSE Least(sources)
              IN isNullOrEmpty(st.before[i][col]) =>
                    st.after[i][col] = IF sources = {} THEN st.before[i][col]
                                       ELSE st.before[nearest][col]

\* a backward fill that filled a leading missing cell and left a trailing one,
\* followed by a forward fill that filled the trailing one
C12_Witness ==
    /\ impPc = "done"
    /\ Len(impSteps) = 2
    /\ impSteps[1].strategy.method = "backward_fill"
    /\ impSteps[2].strategy.method = "forward_fill"
    /\ Len(callRows) = 3
    /\ isNullOrEmpty(callRows[1]["a"])
    /\ ~isNullOrEmpty(callRows[2]["a"])
    /\ isNullOrEmpty(callRows[3]["a"])
    /\ impSteps[1].after[1]["a"] = callRows[2]["a"]
    /\ isNullOrEmpty(impSteps[1].after[3]["a"])
    /\ impSteps[2].after[3]["a"] = callRows[2]["a"]

ForwardFill(column) == Strategy(column, "forward_fill", Undef)

BackwardFill(column) == Strategy(column, "backward_fill", Undef)

\* the outcome the claim C13 requires of a forward fill followed by a backward
\* fill of the column: no missing cell, or no change when all were missing
FilledOrUntouched(before, after, column) ==
    IF PresentRows(before, column) = {}
    THEN Cells(after, column) = Cells(before, column)
    ELSE countNullValues(after, column) = 0

\* C13: a forward fill followed by a backward fill of the same column, as two
\* strategies of one call or as two calls, leaves no missing cell in the
\* column unless every cell of it was missing, and then leaves it unchanged.
C13_ForwardThenBackwardComplete ==
    /\ \A k \in 1..(Len(impSteps) - 1) :
          (/\ impSteps[k].strategy.method = "forward_fill"
           /\ impSteps[k + 1].strategy.method = "backward_fill"
           /\ impSteps[k].strategy.column = impSteps[k + 1].strategy.column)
              => FilledOrUntouched(impSteps[k].before, impSteps[k + 1].after,
                                   impSteps[k].strategy.column)
    /\ (impPc = "done" /\ impStrategies = <<ForwardFill("a")>>) =>
          FilledOrUntouched(callRows,
                            imputeMissingData(imputedData, <<BackwardFill("a")>>).imputedData,
                            "a")

\* one call with forward fill then backward fill on a column that began with
\* a missing cell, which only the backward fill could reach
C13_Witness ==
    /\ impPc = "done"
    /\ impStrategies = <<ForwardFill("a"), BackwardFill("a")>>
    /\ Len(callRows) >= 2
    /\ isNullOrEmpty(callRows[1]["a"])
    /\ PresentRows(callRows, "a") # {}
    /\ isNullOrEmpty(impSteps[1].after[1]["a"])
    /\ countNullValues(imputedData, "a") = 0
\* the point at offset / span of the way from the number p to the number q
Lerp(p, q, offset, span) ==
    Num(p.n * q.d * span + (q.n * p.d - p.n * q.d) * offset, p.d * q.d * span)

\* C14: interpolation fills a missing cell only when the nearest cells that
\* are not missing before and after it both hold valid numbers, with
\* prev + (next - prev) * (i - prevIndex) / (nextIndex - prevIndex) computed
\* from the column as it was before the pass; a missing cell that lacks either
\* bound, or has a bound that is not numeric, is left as it was.
C14_InterpolateBetweenNumbers ==
    \A k \in StepsOf({"interpolation"}) :
        LET st == impSteps[k]
            col == st.strategy.column
            present == PresentRows(st.before, col)
        IN \A i \in 1..Len(st.before) :
              LET before == {j \in present : j < i}
                  after == {j \in present : j > i}
                  prevIndex == Greatest(before)
                  nextIndex == Least(after)
                  prev == Number(st.before[prevIndex][col])
                  next == Number(st.before[nextIndex][col])
              IN isNullOrEmpty(st.before[i][col]) =>
                    IF before # {} /\ after # {} /\ ~IsNaN(prev) /\ ~IsNaN(next)
                    THEN st.after[i][col] = Lerp(prev, next, i - prevIndex, nextIndex - prevIndex)
                    ELSE st.after[i][col] = st.before[i][col]
\* the numbers held by the cells of a column that are not missing and convert
\* to a number, in row order
NumericValues(data, column) ==
    LET kept == SelectSeq(Cells(data, column),
                          LAMBDA v : ~isNullOrEmpty(v) /\ ~IsNaN(Number(v)))
    IN [i \in 1..Len(kept) |-> Number(kept[i])]

RatLess(p, q) == p.n * q.d < q.n * p.d

\* the k-th smallest of a sequence of numbers
KthSmallest(values, k) ==
    CHOOSE v \in Range(values) :
        /\ Cardinality({i \in 1..Len(values) : RatLess(values[i], v)}) < k
        /\ Cardinality({i \in 1..Len(values) : ~RatLess(v, values[i])}) >= k

MedianOf(values) ==
    LET count == Len(values)
        lo == KthSmallest(values, count \div 2)
        hi == KthSmallest(values, count \div 2 + 1)
    IN IF count % 2 = 1 THEN hi
       ELSE Num(lo.n * hi.d + hi.n * lo.d, 2 * lo.d * hi.d)

\* C15: median imputation writes into every missing cell the median of the
\* column's valid numeric values: the middle one in ascending order when
\* their count is odd, the average of the two central ones when it is even.
C15_MedianOfValidValues ==
    \A k \in StepsOf({"median"}) :
        LET st == impSteps[k]
            col == st.strategy.column
            values == NumericValues(st.before, col)
        IN Len(values) > 0 =>
              \A i \in 1..Len(st.before) :
                  isNullOrEmpty(st.before[i][col]) => st.after[i][col] = MedianOf(values)
\* the steps of the strategies that name the column
StepsOn(column) == {k \in 1..Len(impSteps) : impSteps[k].strategy.column = column}

\* C16: when the pass of a strategy throws, the call still returns: that
\* strategy's result is recorded with success = false and an error message,
\* it has changed no cell, and every other strategy of the list is applied
\* and gets its own result.
C16_FailureIsContained ==
    impPc = "done" =>
        /\ Len(impSteps) = Len(impStrategies)
        /\ \A k \in 1..Len(impSteps) :
              LET st == impSteps[k]
              IN /\ st.strategy = impStrategies[k]
                 /\ IF Raises(st.before, st.strategy)
                    THEN /\ ~st.result.success
                         /\ st.result.error # ""
                         /\ st.result.imputedCount = 0
                         /\ st.after = st.before
                    ELSE /\ st.result.success
                         /\ st.after = ApplyMethod(st.before, st.strategy)
        /\ \A c \in Range(ColumnNames) :
              IF StepsOn(c) = {} THEN ~impResults[c].present
              ELSE impResults[c] = impSteps[Greatest(StepsOn(c))].result

\* the strategy on column a threw and the one on column b, after it in the
\* list, filled a cell
C16_Witness ==
    /\ impPc = "done"
    /\ Len(impSteps) = 2
    /\ impSteps[1].strategy.column = "a"
    /\ Raises(impSteps[1].before, impSteps[1].strategy)
    /\ impResults["a"].present
    /\ ~impResults["a"].success
    /\ impResults["a"].error = RaisedMessage
    /\ impSteps[2].strategy.column = "b"
    /\ impResults["b"].success
    /\ impResults["b"].imputedCount > 0
\* the methods the switch of imputeMissingData has a case for
SupportedMethods ==
    {"mean", "median", "mode", "forward_fill", "backward_fill", "interpolation", "custom"}

KnownColumn(strategy) == strategy.column \in Range(ColumnNames)

\* C17: a strategy that names a column not in the column list changes no cell
\* and leaves no entry in results; a strategy whose method is not supported
\* changes no cell and is not reported as a failure.
C17_UnknownColumnAndMethodInert ==
    impPc = "done" =>
        /\ LET known == SelectSeq(impStrategies, KnownColumn)
           IN /\ Len(impSteps) = Len(known)
              /\ \A k \in 1..Len(known) : impSteps[k].strategy = known[k]
        /\ DOMAIN impResults = Range(ColumnNames)
        /\ \A c \in Range(ColumnNames) :
              impResults[c].present =>
                  \E k \in 1..Len(impStrategies) : impStrategies[k].column = c
        /\ \A k \in 1..Len(impSteps) :
              impSteps[k].strategy.method \notin SupportedMethods =>
                  /\ impSteps[k].after = impSteps[k].before
                  /\ impSteps[k].result.success
                  /\ impSteps[k].result.error = ""
                  /\ impSteps[k].result.imputedCount = 0
        /\ (\A k \in 1..Len(impStrategies) :
               \/ ~KnownColumn(impStrategies[k])
               \/ impStrategies[k].method \notin SupportedMethods)
              => imputedData = callRows

\* a call with a strategy on an unknown column and a strategy with an
\* unsupported method on a column that had a missing cell and a number
C17_Witness ==
    /\ impPc = "done"
    /\ impStrategies = <<Strategy("zz", "mean", Undef), Strategy("a", "other", Undef)>>
    /\ countNullValues(callRows, "a") > 0
    /\ HasNumericValue(callRows, "a")
    /\ imputedData = callRows
    /\ impResults["a"].present
    /\ impResults["a"].success
    /\ ~impResults["b"].present

\* the number of missing cells of a column
MissingCount(data, column) == Len(data) - Cardinality(PresentRows(data, column))

\* C18: for every strategy that was applied successfully, imputedCount is the
\* number of missing cells of the column just before the strategy minus the
\* number just after it, also when several strategies name the same column,
\* and 0 <= imputedCount <= originalNullCount.
C18_ImputedCountIsDifference ==
    \A k \in 1..Len(impSteps) :
        LET st == impSteps[k]
            col == st.strategy.column
        IN st.result.success =>
              /\ st.result.imputedCount = MissingCount(st.before, col) - MissingCount(st.after, col)
              /\ st.result.imputedCount >= 0
              /\ st.result.imputedCount <= st.result.originalNullCount
              /\ k = Greatest(StepsOn(col)) => impResults[col] = st.result

\* two strategies on the same column, each filling one of its two missing
\* cells: the second counts from what the first left
C18_Witness ==
    /\ impPc = "done"
    /\ Len(impSteps) = 2
    /\ impSteps[1].strategy.column = "a"
    /\ impSteps[2].strategy.column = "a"
    /\ MissingCount(callRows, "a") = 2
    /\ impSteps[1].result.imputedCount = 1
    /\ impResults["a"].originalNullCount = 1
    /\ impResults["a"].imputedCount = 1

\* C19: imputation writes only into a working copy: the rows the caller
\* passed hold after the call what they held before it.
C19_CallerRowsUnchanged ==
    impPc = "done" => vizRows = callRows
\* the canonical key of a cell: its text lower-cased, trimmed and stripped of
\* the characters that are not alphanumeric
CanonicalKey(value) == StripNonAlphanumerics(Trim(ToLowerCase(ToStr(value))))

\* the rows whose cell of the column holds a value
RowsWithValue(data, column) ==
    {i \in 1..Len(data) : data[i][column] # Null /\ data[i][column] # Undef}

\* C20: after the categorical canonicalization of a string column all cells
\* whose canonical keys coincide hold one identical value, which is an
\* original variant of that key with the highest number of occurrences among
\* the rows; the cells of the other columns are unchanged.
C20_OneRepresentativePerKey ==
    enhPc = "done" =>
        /\ Len(catAfter) = Len(catBefore)
        /\ \A i \in 1..Len(catBefore) : catAfter[i]["b"] = catBefore[i]["b"]
        /\ \A i \in RowsWithValue(catBefore, "a") :
              LET key == CanonicalKey(catBefore[i]["a"])
                  sameKey == {j \in RowsWithValue(catBefore, "a") :
                                 CanonicalKey(catBefore[j]["a"]) = key}
                  occurrences(v) == Cardinality({j \in sameKey : catBefore[j]["a"] = v})
              IN /\ \A j \in sameKey : catAfter[j]["a"] = catAfter[i]["a"]
                 /\ \E j \in sameKey :
                       /\ catAfter[i]["a"] = catBefore[j]["a"]
                       /\ \A j2 \in sameKey :
                             occurrences(catBefore[j]["a"]) >= occurrences(catBefore[j2]["a"])
\* C21: when two or more variants of one canonical key tie for the highest
\* number of occurrences, the representative that categorical canonicalization
\* writes into the cells of that key is the tied variant that appears first
\* in row order (stated for the keys all of whose variants are strings).
C21_TieFirstInRowOrder ==
    enhPc = "done" =>
        \A i \in RowsWithValue(catBefore, "a") :
            LET key == CanonicalKey(catBefore[i]["a"])
                sameKey == {j \in RowsWithValue(catBefore, "a") :
                               CanonicalKey(catBefore[j]["a"]) = key}
                occurrences(j) == Cardinality({j2 \in sameKey : catBefore[j2]["a"] = catBefore[j]["a"]})
                tied == {j \in sameKey : \A j2 \in sameKey : occurrences(j) >= occurrences(j2)}
            IN (/\ \A j \in sameKey : catBefore[j]["a"].k = "str"
                /\ Cardinality({catBefore[j]["a"] : j \in tied}) >= 2)
                  => catAfter[i]["a"] = catBefore[Least(tied)]["a"]
\* C22: a correlation entry is computed only from the rows in which both cells
\* parse to a number: a row with a null cell in either column contributes
\* nothing, and a pair of columns with fewer than two such rows has no entry.
ParsesToNumber(v) == v.k \notin {"null", "undef"} /\ ~IsNaN(Number(v))

BothParse(data, col1, col2) ==
    SelectSeq(data, LAMBDA row : ParsesToNumber(row[col1]) /\ ParsesToNumber(row[col2]))

EntriesFor(col1, col2) ==
    SelectSeq(eda.correlations, LAMBDA e : e.column1 = col1 /\ e.column2 = col2)

C22_CorrelationFromParsedRowsOnly ==
    edaPc = "done" =>
        \A ij \in Range(IndexPairs(Len(NumericColumns(edaColumns)))) :
            LET col1 == NumericColumns(edaColumns)[ij[1]].name
                col2 == NumericColumns(edaColumns)[ij[2]].name
                rows == BothParse(edaData, col1, col2)
            IN IF Len(rows) < 2 THEN EntriesFor(col1, col2) = <<>>
               ELSE EntriesFor(col1, col2) =
                        <<[column1 |-> col1, column2 |-> col2,
                           correlation |->
                               calculatePearsonCorrelation(
                                   [i \in 1..Len(rows) |-> Number(rows[i][col1])],
                                   [i \in 1..Len(rows) |-> Number(rows[i][col2])])]>>
\* C23: Pearson correlation is symmetric in its two inputs, a sequence
\* correlated with itself gives 1 when its values are not all equal, an input
\* whose values are all equal gives 0, and performEDA reports each unordered
\* pair of numeric columns at most once.
AllEqual(x) == \A i, j \in 1..Len(x) : x[i] = x[j]

Firsts(pairs) == [i \in 1..Len(pairs) |-> pairs[i][1]]

Seconds(pairs) == [i \in 1..Len(pairs) |-> pairs[i][2]]

NumericNames == {NumericColumns(edaColumns)[i].name : i \in 1..Len(NumericColumns(edaColumns))}

C23_PearsonContract ==
    edaPc = "done" =>
        /\ \A col1, col2 \in NumericNames :
               LET x == Firsts(CoObserved(edaData, col1, col2))
                   y == Seconds(CoObserved(edaData, col1, col2))
               IN /\ calculatePearsonCorrelation(x, y) = calculatePearsonCorrelation(y, x)
                  /\ ~AllEqual(x) => calculatePearsonCorrelation(x, x) = Int2V(1)
                  /\ AllEqual(x) => calculatePearsonCorrelation(x, y) = Int2V(0)
        /\ \A e \in Range(eda.correlations) :
               AllEqual(Firsts(CoObserved(edaData, e.column1, e.column2)))
                   => e.correlation = Int2V(0)
        /\ \A col1, col2 \in NumericNames :
               Cardinality({i \in 1..Len(eda.correlations) :
                   {eda.correlations[i].column1, eda.correlations[i].column2}
                       = {col1, col2}}) <= 1

\* C24 (as stated): for the values [1,2,3,4,100] in a numeric column the
\* Z-score pass reports 100 as an outlier.
ColumnIs(values) ==
    /\ Len(edaData) = Len(values)
    /\ \A i \in 1..Len(values) : edaData[i]["a"] = Int2V(values[i])

OutliersBy(method) == SelectSeq(eda.outliers, LAMBDA e : e.method = method)

C24_ZScoreReports100 ==
    (edaPc = "done" /\ ColumnIs(<<1, 2, 3, 4, 100>>))
        => \E e \in Range(OutliersBy("Z-Score")) : Int2V(100) \in Range(e.values)

\* C24 (amended): for the values 1, 2, 3, 4, 100 in a numeric column, in any
\* row order, the IQR pass reports 100 and nothing else, and the Z-score pass
\* reports nothing: the mean is 22 and the population variance 1522, so the
\* Z-score of 100 is about 2.
C24_OnlyIqrReports100 ==
    (edaPc = "done" /\ SortAscending(NumbersOf(edaData, "a"))
                           = <<Int2V(1), Int2V(2), Int2V(3), Int2V(4), Int2V(100)>>
                    /\ \A i \in 1..Len(edaData) : edaData[i]["a"] # Null)
        => /\ eda.outliers = <<[column |-> "a", method |-> "IQR", count |-> 1,
                                values |-> <<Int2V(100)>>]>>
           /\ Mean(NumbersOf(edaData, "a")) = Int2V(22)
           /\ Variance(NumbersOf(edaData, "a")) = Int2V(1522)

C24_Witness ==
    /\ edaPc = "done"
    /\ ColumnIs(<<1, 2, 3, 4, 100>>)
    /\ OutliersBy("IQR") # <<>>
    /\ OutliersBy("Z-Score") = <<>>
\* C25: IQR outlier detection uses only the valid (non-null, number-parsing)
\* values of the column: with Q1 and Q3 the linear-interpolated percentiles of
\* those values sorted, exactly the values outside
\* [Q1 - 1.5 IQR, Q3 + 1.5 IQR] are flagged, and a column with four or fewer
\* valid values has no outlier entry at all.
ValidValues(data, column) ==
    LET cells == SelectSeq([i \in 1..Len(data) |-> data[i][column]], ParsesToNumber)
    IN SortAscending([i \in 1..Len(cells) |-> Number(cells[i])])

\* the value at fraction p / 100 of the way through the sorted values,
\* interpolated linearly between its two neighbours
InterpolatedPercentile(sorted, p) ==
    LET whole == (p * (Len(sorted) - 1)) \div 100
        part == Num((p * (Len(sorted) - 1)) % 100, 100)
    IN IF part.n = 0 THEN sorted[whole + 1]
       ELSE JsPlus(sorted[whole + 1],
                   JsTimes(part, JsSub(sorted[whole + 2], sorted[whole + 1])))

OutsideFences(sorted) ==
    LET q1 == InterpolatedPercentile(sorted, 25)
        q3 == InterpolatedPercentile(sorted, 75)
        reach == JsTimes(Num(3, 2), JsSub(q3, q1))
    IN SelectSeq(sorted, LAMBDA val :
           JsLess(val, JsSub(q1, reach)) \/ JsLess(JsPlus(q3, reach), val))

C25_IqrOnValidValues ==
    edaPc = "done" =>
        LET valid == ValidValues(edaData, "a")
        IN IF Len(valid) <= 4 THEN eda.outliers = <<>>
           ELSE IF OutsideFences(valid) = <<>> THEN OutliersBy("IQR") = <<>>
           ELSE OutliersBy("IQR") =
                    <<[column |-> "a", method |-> "IQR",
                       count |-> Len(OutsideFences(valid)),
                       values |-> FirstTen(OutsideFences(valid))]>>
\* C26: the histogram of a numeric column has exactly 10 equal-width bins
\* spanning [min, max] of the column's valid values, only the last bin closed
\* on the right; every valid value is counted in exactly one bin, so the
\* counts sum to the number of valid values, also when min = max.
NumericDistributions == SelectSeq(eda.distributions, LAMBDA e : e.type = "numeric")

InBin(val, h, i) ==
    /\ JsGreaterEq(val, h[i].binStart)
    /\ IF i = Len(h) THEN JsLessEq(val, h[i].binEnd) ELSE JsLess(val, h[i].binEnd)

C26_HistogramPartitionsValidValues ==
    edaPc = "done" =>
        LET valid == ValidValues(edaData, "a")
        IN valid # <<>> =>
                /\ Len(NumericDistributions) = 1
                /\ LET h == NumericDistributions[1].histogram
                       width == JsDiv(JsSub(valid[Len(valid)], valid[1]), Int2V(10))
                   IN /\ Len(h) = 10
                      /\ h[1].binStart = valid[1]
                      /\ h[10].binEnd = valid[Len(valid)]
                      /\ \A i \in 1..10 : JsSub(h[i].binEnd, h[i].binStart) = width
                      /\ \A i \in 1..9 : h[i].binEnd = h[i + 1].binStart
                      /\ \A j \in 1..Len(valid) :
                             Cardinality({i \in 1..10 : InBin(valid[j], h, i)}) = 1
                      /\ \A i \in 1..10 :
                             h[i].count = Cardinality({j \in 1..Len(valid) : InBin(valid[j], h, i)})
                      /\ FoldSeq(LAMBDA sum, bin : sum + bin.count, 0, h) = Len(valid)
\* C27: for every pair of string columns a potential_relationship pattern is
\* reported exactly when the number of distinct values the two columns share,
\* divided by the smaller of their numbers of distinct values, is above 0.7
\* (a column without values gives no pattern), and the confidence of every
\* pattern lies in [0, 1].
Distinct(column) ==
    {edaData[i][column] : i \in {r \in 1..Len(edaData) : ~IsMissing(edaData[r][column])}}

StringNames ==
    LET cols == SelectSeq(edaColumns, LAMBDA col : col.type = "string")
    IN [i \in 1..Len(cols) |-> cols[i].name]

Related(col1, col2) ==
    /\ Distinct(col1) # {} /\ Distinct(col2) # {}
    /\ 10 * Cardinality(Distinct(col1) \cap Distinct(col2))
           > 7 * Smaller(Cardinality(Distinct(col1)), Cardinality(Distinct(col2)))

Relationships == SelectSeq(eda.patterns, LAMBDA pat : pat.type = "potential_relationship")

NamedColumns == {impStrategies[k].column : k \in 1..Len(impStrategies)}

C28_OnlyMissingCellsOfNamedColumnsChange ==
    impPc = "done" =>
        /\ Len(imputedData) = Len(callRows)
        /\ \A i \in 1..Len(callRows) : \A c \in Keys :
               (c \notin NamedColumns \/ ~isNullOrEmpty(callRows[i][c]))
                   => imputedData[i][c] = callRows[i][c]
        /\ impSteps # <<>> =>
               /\ impSteps[1].before = callRows
               /\ impSteps[Len(impSteps)].after = imputedData
        /\ impSteps = <<>> => imputedData = callRows
        /\ \A k \in 1..(Len(impSteps) - 1) : impSteps[k + 1].before = impSteps[k].after
        /\ \A k \in 1..Len(impSteps) :
               LET st == impSteps[k]
               IN /\ Len(st.after) = Len(st.before)
                  /\ \A i \in 1..Len(st.before) : \A c \in Keys :
                         st.after[i][c] # st.before[i][c]
                             => /\ c = st.strategy.column
                                /\ isNullOrEmpty(st.before[i][c])

\* a call filled a missing cell of the named column a, kept a present cell of
\* it, and left the null cell of the unnamed column b as it was
C28_Witness ==
    /\ impPc = "done"
    /\ "b" \notin NamedColumns
    /\ \E i \in 1..Len(callRows) :
           callRows[i]["b"] = Null /\ imputedData[i]["b"] = Null
    /\ \E i \in 1..Len(callRows) :
           isNullOrEmpty(callRows[i]["a"]) /\ ~isNullOrEmpty(imputedData[i]["a"])
    /\ \E i \in 1..Len(callRows) :
           ~isNullOrEmpty(callRows[i]["a"]) /\ callRows[i]["b"] # Null
\* C29: in the result of transformData, cleanedRowCount is the length of the
\* returned data, originalRowCount is the length of the rows given,
\* cleanedRowCount + qualityReport.duplicateRows is the number of given rows
\* that are not entirely empty (at most originalRowCount), and the rows given
\* are not modified.
NotEntirelyEmpty(data) ==
    {i \in 1..Len(data) :
        \E c \in Keys : data[i][c].k \notin {"null", "undef"} /\ data[i][c] # Str("")}

RowAccounting(given, result) ==
    /\ result.cleanedRowCount = Len(result.data)
    /\ result.originalRowCount = Len(given)
    /\ result.cleanedRowCount + result.qualityReport.duplicateRows
           = Cardinality(NotEntirelyEmpty(given))
    /\ result.cleanedRowCount + result.qualityReport.duplicateRows
           <= result.originalRowCount

C29_RowAccounting ==
    [][/\ (pc = "input" /\ pc' = "first")
              => RowAccounting(rawData, processed') /\ rawData' = rawData
       /\ (pc = "first" /\ pc' = "second")
              => RowAccounting(processed.data, processed') /\ rawData' = rawData]_vars

\* of three rows given, one was entirely empty and one a duplicate
C29_Witness ==
    /\ pc = "first"
    /\ Len(rawData) = 3
    /\ processed.originalRowCount = 3
    /\ processed.cleanedRowCount = 1
    /\ processed.qualityReport.duplicateRows = 1
\* C30: updateDataset for an id that is not in the store changes nothing and
\* notifies no listener; whatever the interleaving of a processFile task
\* (addDataset, updateDataset to processing, then to completed or error) with
\* deleteDataset for its id, a deleted dataset is never present again; and a
\* dataset's status only moves uploading -> processing -> completed or error.
UpdatesDataset(f) ==
    \/ filePc[f] = "loop" /\ filePc'[f] = "extract"
    \/ filePc[f] = "extract" /\ filePc'[f] = "end"

StatusMoves ==
    {<<"absent", "uploading">>, <<"uploading", "processing">>,
     <<"processing", "completed">>, <<"processing", "error">>,
     <<"uploading", "absent">>, <<"processing", "absent">>,
     <<"completed", "absent">>, <<"error", "absent">>}

C30_DeletedStaysDeleted ==
    [][\A f \in Files :
          /\ (UpdatesDataset(f) /\ datasets[f] = Absent)
                 => datasets' = datasets /\ notifications' = notifications
          /\ deleted'[f] => datasets'[f] = Absent
          /\ datasets'[f].status # datasets[f].status
                 => <<datasets[f].status, datasets'[f].status>> \in StatusMoves
          /\ (datasets[f] = Absent /\ datasets'[f] # Absent) => filePc[f] = "new"]_vars

\* a dataset was deleted while its file was being processed, the task ran to
\* its end and the dataset is absent; the other file's dataset is completed
C30_Witness ==
    \E f, g \in Files :
        /\ deleted[f] /\ filePc[f] = "end" /\ datasets[f] = Absent
        /\ deleteCalls = 1
        /\ ~deleted[g] /\ datasets[g].status = "completed"
====
